---- MODULE Spec2Model ----
(***************************************************************************)
(* A model of the inverted index of src/src/index.rs: the analyzers, the   *)
(* coalescing primitives, index(), and the query evaluator.                *)
(*                                                                         *)
(* A char is its Unicode scalar value, a string is a sequence of chars,    *)
(* a BTreeMap is a function whose domain is the key set (iteration goes    *)
(* through the keys in ascending order), an Option is <<>> (None) or       *)
(* <<x>> (Some(x)), and indices into Vecs are 0-based as in the source.    *)
(***************************************************************************)
EXTENDS Integers, Sequences, FiniteSets, TLC

VARIABLES index, docs, panicked, lastQuery, results, highlighted,
          isect, tokIter, call, ret

\* The state of the index and of its caller.
indexVars == <<index, docs, panicked, lastQuery, results, highlighted>>

\* The parts of the library run on their own: an Intersection iterator, the
\* iterator of a tokenizer, and a call of one of the functions with its
\* return value.
partVars == <<isect, tokIter, call, ret>>

vars == <<indexVars, partVars>>

None == <<>>

Some(x) == <<x>>

----------------------------------------------------------------------------
(* Characters and strings                                                  *)

\* The code points used by the inputs of the model.
Chr == [sp |-> 32, A |-> 65, a |-> 97, M |-> 1114111,
        Sigma |-> 931, fsigma |-> 962, sigma |-> 963]

\* char::is_whitespace: the Unicode White_Space property.
IsWhitespaceChar(c) ==
    c \in (9..13) \cup {32, 133, 160, 5760, 8232, 8233, 8239, 8287, 12288}
          \cup (8192..8202)

\* char::len_utf8
LenUtf8(c) ==
    IF c < 128 THEN 1 ELSE IF c < 2048 THEN 2 ELSE IF c < 65536 THEN 3 ELSE 4

\* char::to_lowercase: an iterator of one or more chars. ASCII letters, the
\* Latin-1 capitals and the Greek capitals map to one char; U+0130 expands
\* to two chars. It maps char by char: the capital sigma U+03A3 always gives
\* U+03C3, and the final sigma U+03C2 is lowercase already.
ToLowercase(c) ==
    IF c \in 65..90 THEN <<c + 32>>
    ELSE IF c \in (192..214) \cup (216..222) THEN <<c + 32>>
    ELSE IF c \in (913..929) \cup (931..939) THEN <<c + 32>>
    ELSE IF c = 304 THEN <<105, 775>>
    ELSE <<c>>

\* Ord for str: lexicographic by code point.
RECURSIVE StrLess(_, _)
StrLess(s, t) ==
    IF t = <<>> THEN FALSE
    ELSE IF s = <<>> THEN TRUE
    ELSE IF Head(s) # Head(t) THEN Head(s) < Head(t)
    ELSE StrLess(Tail(s), Tail(t))

\* The keys of a BTreeMap<String, _> in iteration order.
RECURSIVE SortedTerms(_)
SortedTerms(S) ==
    IF S = {} THEN <<>>
    ELSE LET m == CHOOSE x \in S : \A y \in S : x = y \/ StrLess(x, y)
         IN  <<m>> \o SortedTerms(S \ {m})

\* The keys of a BTreeMap<usize, _> in iteration order.
RECURSIVE SortedIds(_)
SortedIds(S) ==
    IF S = {} THEN <<>>
    ELSE LET m == CHOOSE x \in S : \A y \in S : x <= y
         IN  <<m>> \o SortedIds(S \ {m})

\* BTreeMap::insert / entry().or_insert
MapPut(m, k, v) == [x \in DOMAIN m \cup {k} |-> IF x = k THEN v ELSE m[x]]

\* BTreeMap::remove
MapRemove(m, k) == [x \in DOMAIN m \ {k} |-> m[x]]

EmptyMap == <<>>

----------------------------------------------------------------------------
(* Positions and the Merge / Coalesce primitives                           *)

\* Position::new
NewPosition(offsets, position) == [offsets |-> offsets, position |-> position]

\* derive(Ord) on Position: by offsets (a tuple, lexicographic), then position.
PosLess(x, y) ==
    \/ x.offsets[1] < y.offsets[1]
    \/ /\ x.offsets[1] = y.offsets[1]
       /\ \/ x.offsets[2] < y.offsets[2]
          \/ x.offsets[2] = y.offsets[2] /\ x.position < y.position

\* Merge for (usize, usize); the assertion begin2 >= begin1 is reported by
\* MergeAssertFails.
MergeOffsets(o1, o2) ==
    IF o1[2] >= o2[1]
    THEN Some(IF o1[2] < o2[2] THEN <<o1[1], o2[2]>> ELSE <<o1[1], o1[2]>>)
    ELSE None

MergeAssertFails(o1, o2) == o2[1] < o1[1]

\* What a merge whose assertion fails leaves in place of a Position: the
\* panic unwinds to the caller, who finds it by this mark.
AssertFailed == NewPosition(<<0, 0>>, -1)

\* Merge for Position
Merge(x, y) ==
    IF x.position = y.position
    THEN IF MergeAssertFails(x.offsets, y.offsets) THEN Some(AssertFailed)
         ELSE LET m == MergeOffsets(x.offsets, y.offsets)
              IN  IF m = None THEN None ELSE Some(NewPosition(m[1], x.position))
    ELSE None

\* A merge has panicked while this Vec was built.
VecPanicked(v) == \E k \in 1..Len(v) : v[k] = AssertFailed

\* A merge has panicked while this postings map was built.
PostingsPanicked(postings) == \E id \in DOMAIN postings : VecPanicked(postings[id])

\* Vec::insert(index, el), index 0-based.
VecInsert(v, i, el) == SubSeq(v, 1, i) \o <<el>> \o SubSeq(v, i + 1, Len(v))

\* Vec::remove(index), index 0-based.
VecRemove(v, i) == SubSeq(v, 1, i) \o SubSeq(v, i + 2, Len(v))

\* v[index] = el, index 0-based.
VecSet(v, i, el) == [v EXCEPT ![i + 1] = el]

\* A coalesce that inserts and never merges.
CoalesceInsertOnly(v, i, el) == VecInsert(v, i, el)

\* Vec::coalesce
Coalesce(v, i, el) ==
    IF v = <<>> THEN VecInsert(v, i, el)
    ELSE IF i = 0 THEN
        LET c == Merge(el, v[1])
        IN  IF c # None THEN VecSet(v, i, c[1]) ELSE VecInsert(v, i, el)
    ELSE IF i = Len(v) THEN
        LET c == Merge(v[i], el)
        IN  IF c # None THEN VecSet(v, i - 1, c[1]) ELSE VecInsert(v, i, el)
    ELSE
        LET c == Merge(v[i], el)
        IN  IF c # None THEN
                LET v1 == VecSet(v, i - 1, c[1])
                    c2 == Merge(v1[i], v1[i + 1])
                IN  IF c2 # None THEN VecRemove(VecSet(v1, i - 1, c2[1]), i)
                    ELSE v1
            ELSE
                LET c3 == Merge(el, v[i + 1])
                IN  IF c3 # None THEN VecSet(v, i, c3[1]) ELSE VecInsert(v, i, el)

\* slice::binary_search on s; [found, idx], idx 0-based.
RECURSIVE BinarySearchFrom(_, _, _, _)
BinarySearchFrom(s, el, lo, hi) ==
    IF lo >= hi THEN [found |-> FALSE, idx |-> lo]
    ELSE LET mid == lo + (hi - lo) \div 2
         IN  IF s[mid + 1] = el THEN [found |-> TRUE, idx |-> mid]
             ELSE IF PosLess(s[mid + 1], el) THEN BinarySearchFrom(s, el, mid + 1, hi)
             ELSE BinarySearchFrom(s, el, lo, mid)

BinarySearch(s, el) == BinarySearchFrom(s, el, 0, Len(s))

\* A search_coalesce that returns the index within the slice searched.
SearchCoalesceSliceIndex(v, start, el) ==
    LET r == BinarySearchFrom(SubSeq(v, start + 1, Len(v)), el, 0, Len(v) - start)
    IN  IF r.found THEN [v |-> v, idx |-> r.idx]
        ELSE [v |-> Coalesce(v, start + r.idx, el), idx |-> r.idx]

\* Vec::search_coalesce; [v, idx].
SearchCoalesce(v, start, el) ==
    LET r == BinarySearch(SubSeq(v, start + 1, Len(v)), el)
    IN  IF r.found THEN [v |-> v, idx |-> start + r.idx]
        ELSE [v |-> Coalesce(v, start + r.idx, el), idx |-> start + r.idx]

\* Coalesce::merge_coalesce
RECURSIVE MergeCoalesceFrom(_, _, _, _)
MergeCoalesceFrom(v, other, k, idx) ==
    IF k > Len(other) THEN v
    ELSE LET r == SearchCoalesce(v, idx, other[k])
         IN  MergeCoalesceFrom(r.v, other, k + 1, r.idx)

MergeCoalesce(v, other) == MergeCoalesceFrom(v, other, 1, 0)

\* MergeCoalesceMap::from_iter over the (key, value) pairs of an iterator.
\* A from_iter whose occupied entry is overwritten instead of merged.
RECURSIVE MergeCoalesceMapOverwriting(_, _, _)
MergeCoalesceMapOverwriting(map, pairs, k) ==
    IF k > Len(pairs) THEN map
    ELSE MergeCoalesceMapOverwriting(MapPut(map, pairs[k][1], pairs[k][2]), pairs, k + 1)

RECURSIVE MergeCoalesceMapFrom(_, _, _)
MergeCoalesceMapFrom(map, pairs, k) ==
    IF k > Len(pairs) THEN map
    ELSE LET key == pairs[k][1]
             val == pairs[k][2]
         IN  MergeCoalesceMapFrom(
                 IF key \notin DOMAIN map THEN MapPut(map, key, val)
                 ELSE MapPut(map, key, MergeCoalesce(map[key], val)),
                 pairs, k + 1)

MergeCoalesceMap(pairs) == MergeCoalesceMapFrom(EmptyMap, pairs, 1)

----------------------------------------------------------------------------
(* Analyzers                                                               *)

\* str::char_indices: <<byte offset, char>> for every char.
RECURSIVE CharIndicesFrom(_, _, _)
CharIndicesFrom(s, k, off) ==
    IF k > Len(s) THEN <<>>
    ELSE <<<<off, s[k]>>>> \o CharIndicesFrom(s, k + 1, off + LenUtf8(s[k]))

CharIndices(s) == CharIndicesFrom(s, 1, 0)

\* is_whitespace on an element of char_indices
IsWhitespace(ic) == IsWhitespaceChar(ic[2])

\* itertools group_by(is_whitespace): runs of equal key, <<key, run>>.
RECURSIVE GroupByFrom(_, _, _)
GroupByFrom(cis, k, acc) ==
    IF k > Len(cis) THEN acc
    ELSE LET key == IsWhitespace(cis[k])
             n == Len(acc)
         IN  IF n > 0 /\ acc[n][1] = key
             THEN GroupByFrom(cis, k + 1,
                              [acc EXCEPT ![n] = <<key, acc[n][2] \o <<cis[k]>>>>])
             ELSE GroupByFrom(cis, k + 1, acc \o <<<<key, <<cis[k]>>>>>>)

GroupBy(cis) == GroupByFrom(cis, 1, <<>>)

\* filter(not_whitespace)
RECURSIVE NotWhitespace(_)
NotWhitespace(groups) ==
    IF groups = <<>> THEN <<>>
    ELSE IF ~Head(groups)[1] THEN <<Head(groups)[2]>> \o NotWhitespace(Tail(groups))
    ELSE NotWhitespace(Tail(groups))

\* The words of s: each the <<offset, char>> list of one whitespace-free run.
WordPositions(s) == NotWhitespace(GroupBy(CharIndices(s)))

\* An n-gram that keeps the case of the word.
LowerWordKeepingCase(chars, to) == [k \in 1..to |-> chars[k][2]]

\* flat_map(to_lowercase) over chars[..to]
RECURSIVE LowerWord(_, _)
LowerWord(chars, to) ==
    IF to = 0 THEN <<>>
    ELSE LowerWord(chars, to - 1) \o ToLowercase(chars[to][2])

\* An n-gram whose end is one byte after the start of its last char.
NgramsOneByteEnd(position, chars, to) ==
    <<LowerWord(chars, to), NewPosition(<<chars[1][1], chars[to][1] + 1>>, position)>>

\* An n-gram that begins at its last char instead of the word's first.
NgramsFromItsLastChar(position, chars, to) ==
    <<LowerWord(chars, to),
      NewPosition(<<chars[to][1], chars[to][1] + LenUtf8(chars[to][2])>>, position)>>

\* Ngrams::call: <<term, Position>> of the first `to` chars of a word.
Ngrams(position, chars, to) ==
    LET start == chars[1][1]
        finish == chars[to][1] + LenUtf8(chars[to][2])
    IN  <<LowerWord(chars, to), NewPosition(<<start, finish>>, position)>>

\* The n-grams of each word from the longest to the shortest.
RECURSIVE NgramsFromDescending(_, _)
NgramsFromDescending(words, w) ==
    IF w > Len(words) THEN <<>>
    ELSE [to \in 1..Len(words[w]) |->
             Ngrams(w - 1, words[w], Len(words[w]) + 1 - to)]
         \o NgramsFromDescending(words, w + 1)

\* NgramsAnalyzer::analyze
RECURSIVE NgramsFrom(_, _)
NgramsFrom(words, w) ==
    IF w > Len(words) THEN <<>>
    ELSE [to \in 1..Len(words[w]) |-> Ngrams(w - 1, words[w], to)]
         \o NgramsFrom(words, w + 1)

NgramsAnalyze(s) == NgramsFrom(WordPositions(s), 1)

\* WhitespaceAnalyzer::analyze
WhitespaceAnalyze(s) ==
    LET words == WordPositions(s)
    IN  [w \in 1..Len(words) |-> Ngrams(w - 1, words[w], Len(words[w]))]

\* Analyzer::analyze_tokens
AnalyzeTokens(s) ==
    LET tp == WhitespaceAnalyze(s) IN [k \in 1..Len(tp) |-> tp[k][1]]

\* itertools unique(): first occurrences, in order.
RECURSIVE UniqueFrom(_, _, _)
UniqueFrom(toks, k, acc) ==
    IF k > Len(toks) THEN acc
    ELSE IF \E j \in 1..Len(acc) : acc[j] = toks[k] THEN UniqueFrom(toks, k + 1, acc)
    ELSE UniqueFrom(toks, k + 1, Append(acc, toks[k]))

Unique(toks) == UniqueFrom(toks, 1, <<>>)

----------------------------------------------------------------------------
(* InvertedIndex::index                                                    *)

\* The removal loop over the previous version's analyzed content
\* (index.rs 67-76): [index, panicked]; panicked when get_mut(&ngram)
\* is None and unwrap() fails.
\* A removal loop that keeps the key of an emptied postings map.
RECURSIVE RemovePreviousKeepingKeys(_, _, _, _)
RemovePreviousKeepingKeys(idx, analyzed, k, id) ==
    IF k > Len(analyzed) THEN [index |-> idx, panicked |-> FALSE]
    ELSE IF analyzed[k][1] \notin DOMAIN idx THEN [index |-> idx, panicked |-> TRUE]
    ELSE RemovePreviousKeepingKeys(
             MapPut(idx, analyzed[k][1], MapRemove(idx[analyzed[k][1]], id)),
             analyzed, k + 1, id)

RECURSIVE RemovePrevious(_, _, _, _)
RemovePrevious(idx, analyzed, k, id) ==
    IF k > Len(analyzed) THEN [index |-> idx, panicked |-> FALSE]
    ELSE LET ngram == analyzed[k][1]
         IN  IF ngram \notin DOMAIN idx THEN [index |-> idx, panicked |-> TRUE]
             ELSE LET docs_for_ngram == MapRemove(idx[ngram], id)
                      is_empty == DOMAIN docs_for_ngram = {}
                  IN  RemovePrevious(
                          IF is_empty THEN MapRemove(idx, ngram)
                          ELSE MapPut(idx, ngram, docs_for_ngram),
                          analyzed, k + 1, id)

\* The insertion loop over the new content (index.rs 79-87).
RECURSIVE InsertAnalyzed(_, _, _, _)
InsertAnalyzed(idx, analyzed, k, id) ==
    IF k > Len(analyzed) THEN idx
    ELSE LET ngram == analyzed[k][1]
             position == analyzed[k][2]
             postings_map == IF ngram \in DOMAIN idx THEN idx[ngram] ELSE EmptyMap
             positions == IF id \in DOMAIN postings_map THEN postings_map[id] ELSE <<>>
             coalesced == SearchCoalesce(positions, 0, position).v
         IN  InsertAnalyzed(MapPut(idx, ngram, MapPut(postings_map, id, coalesced)),
                            analyzed, k + 1, id)

\* The document analyzer of InvertedIndex::new().
DocAnalyze(s) == NgramsAnalyze(s)

\* The index and the panic flag after index(doc) on (idx, ds).
IndexDoc(idx, ds, id, content) ==
    LET removed == IF id \in DOMAIN ds
                   THEN RemovePrevious(idx, DocAnalyze(ds[id]), 1, id)
                   ELSE [index |-> idx, panicked |-> FALSE]
    IN  IF removed.panicked THEN removed
        ELSE LET inserted == InsertAnalyzed(removed.index, DocAnalyze(content), 1, id)
             IN  [index |-> inserted,
                  panicked |-> \E ngram \in DOMAIN inserted :
                                  PostingsPanicked(inserted[ngram])]

----------------------------------------------------------------------------
(* Multi-map key intersection (util/btree_map_ext.rs)                      *)

\* A find that passes over a key equal to maximum.
RECURSIVE FindGreater(_, _)
FindGreater(iter, maximum) ==
    IF iter = <<>> THEN [val |-> None, rest |-> <<>>]
    ELSE IF Head(iter) > maximum THEN [val |-> Some(Head(iter)), rest |-> Tail(iter)]
    ELSE FindGreater(Tail(iter), maximum)

\* Iterator::find(|x| x >= &maximum) on the rest of a key iterator:
\* [val, rest], the iterator left after the element found.
RECURSIVE Find(_, _)
Find(iter, maximum) ==
    IF iter = <<>> THEN [val |-> None, rest |-> <<>>]
    ELSE IF Head(iter) >= maximum THEN [val |-> Some(Head(iter)), rest |-> Tail(iter)]
    ELSE Find(Tail(iter), maximum)

\* The for loop of Intersection::next over iters[i..], 0-based i:
\* [kind, iters, val, skip_nth], kind "none" (an iterator ended), "retry"
\* (a greater key was found) or "match" (every iterator holds maximum).
RECURSIVE MatchIters(_, _, _, _)
MatchIters(iters, i, maximum, skip_nth) ==
    IF i >= Len(iters)
    THEN [kind |-> "match", iters |-> iters, val |-> maximum, skip_nth |-> skip_nth]
    ELSE IF i = skip_nth THEN MatchIters(iters, i + 1, maximum, skip_nth)
    ELSE LET f == Find(iters[i + 1], maximum)
             advanced == [iters EXCEPT ![i + 1] = f.rest]
         IN  IF f.val = None
             THEN [kind |-> "none", iters |-> advanced, val |-> maximum,
                   skip_nth |-> skip_nth]
             ELSE IF f.val[1] > maximum
             THEN [kind |-> "retry", iters |-> advanced, val |-> f.val[1],
                   skip_nth |-> i]
             ELSE MatchIters(advanced, i + 1, maximum, skip_nth)

\* The loop of Intersection::next.
RECURSIVE IntersectionLoop(_, _, _)
IntersectionLoop(iters, maximum, skip_nth) ==
    LET r == MatchIters(iters, 0, maximum, skip_nth)
    IN  IF r.kind = "retry" THEN IntersectionLoop(r.iters, r.val, r.skip_nth)
        ELSE IF r.kind = "none" THEN [item |-> None, iters |-> r.iters]
        ELSE [item |-> Some(r.val), iters |-> r.iters]

\* Intersection::next: [item, iters].
IntersectionNext(iters) ==
    IF iters = <<>> \/ iters[1] = <<>> THEN [item |-> None, iters |-> iters]
    ELSE IntersectionLoop([iters EXCEPT ![1] = Tail(iters[1])], Head(iters[1]), 0)

\* The items of the iterator up to its first None.
RECURSIVE IntersectionCollect(_)
IntersectionCollect(iters) ==
    LET r == IntersectionNext(iters)
    IN  IF r.item = None THEN <<>>
        ELSE <<r.item[1]>> \o IntersectionCollect(r.iters)

\* BTreeMapExt::intersection on a slice of maps, collected.
Intersection(maps) ==
    IntersectionCollect([k \in 1..Len(maps) |-> SortedIds(DOMAIN maps[k])])

----------------------------------------------------------------------------
(* Postings (postings.rs)                                                  *)

\* The loop over rest in intersect_postings.
\* An intersection that keeps the positions of the first posting only.
MergeRestKeepingFirst(positions, postings, k, doc_id) == positions

RECURSIVE MergeRest(_, _, _, _)
MergeRest(positions, postings, k, doc_id) ==
    IF k > Len(postings) THEN positions
    ELSE MergeRest(MergeCoalesce(positions, postings[k][doc_id]), postings, k + 1, doc_id)

\* PostingsIntersect::intersect_postings
IntersectPostings(postings) ==
    IF postings = <<>> THEN EmptyMap
    ELSE IF Len(postings) = 1 THEN postings[1]
    ELSE LET ids == Intersection(postings)
         IN  [doc_id \in {ids[k] : k \in 1..Len(ids)} |->
                 MergeRest(postings[1][doc_id], postings, 2, doc_id)]

\* The loop of <[Position] as PositionalIntersect>::intersect_positionally;
\* l and r are the 1-based cursors of lval and rval.
RECURSIVE IntersectPositionsFrom(_, _, _, _, _)
IntersectPositionsFrom(this, other, l, r, intersection) ==
    IF l > Len(this) \/ r > Len(other) THEN intersection
    ELSE IF this[l].position < other[r].position THEN
        IF this[l].position + 1 = other[r].position THEN
            LET pushed == IF intersection # <<>>
                             /\ intersection[Len(intersection)] = this[l]
                          THEN intersection
                          ELSE Append(intersection, this[l])
            IN  IntersectPositionsFrom(this, other, l + 1, r + 1,
                                       Append(pushed, other[r]))
        ELSE IntersectPositionsFrom(this, other, l + 1, r, intersection)
    ELSE IntersectPositionsFrom(this, other, l, r + 1, intersection)

\* A walk that pushes every matched left entry, the last one pushed or not.
RECURSIVE PushingAllFrom(_, _, _, _, _)
PushingAllFrom(this, other, l, r, intersection) ==
    IF l > Len(this) \/ r > Len(other) THEN intersection
    ELSE IF this[l].position < other[r].position THEN
        IF this[l].position + 1 = other[r].position THEN
            PushingAllFrom(this, other, l + 1, r + 1,
                           Append(Append(intersection, this[l]), other[r]))
        ELSE PushingAllFrom(this, other, l + 1, r, intersection)
    ELSE PushingAllFrom(this, other, l, r + 1, intersection)

IntersectPositionsPushingAll(this, other) == PushingAllFrom(this, other, 1, 1, <<>>)

IntersectPositions(this, other) == IntersectPositionsFrom(this, other, 1, 1, <<>>)

\* <PostingsMap as PositionalIntersect>::intersect_positionally
IntersectPositionally(posting0, posting1) ==
    LET ids == Intersection(<<posting0, posting1>>)
    IN  [doc_id \in {ids[k] : k \in 1..Len(ids)} |->
            IntersectPositions(posting0[doc_id], posting1[doc_id])]

----------------------------------------------------------------------------
(* Query evaluation (index.rs)                                             *)

\* A successor that does not step over the surrogate range, where
\* char::from_u32 is None.
SuccessorWithoutSkip(c) ==
    LET val == c + 1
    IN  IF val > 1114111 \/ val \in 55296..57343 THEN None ELSE Some(val)

\* <char as Successor>::successor; char::from_u32 is None above 0x10FFFF.
Successor(c) ==
    LET val == IF c = 55295 THEN 57344 ELSE c + 1
    IN  IF val > 1114111 THEN None ELSE Some(val)

\* flat_map(|map| map) over a sequence of postings maps: the (doc id,
\* positions) pairs of each map in ascending doc id order.
RECURSIVE FlatPairs(_)
FlatPairs(maps) ==
    IF maps = <<>> THEN <<>>
    ELSE LET ids == SortedIds(DOMAIN Head(maps))
         IN  [k \in 1..Len(ids) |-> <<ids[k], Head(maps)[ids[k]]>>]
             \o FlatPairs(Tail(maps))

\* flat_map(|word| self.index.get(&word)): the maps of the words present.
RECURSIVE GetAll(_, _)
GetAll(idx, words) ==
    IF words = <<>> THEN <<>>
    ELSE (IF Head(words) \in DOMAIN idx THEN <<idx[Head(words)]>> ELSE <<>>)
         \o GetAll(idx, Tail(words))

\* The query analyzer of InvertedIndex::new().
QueryTokens(s) == AnalyzeTokens(s)

\* InvertedIndex::postings
Postings(idx, query) ==
    MergeCoalesceMap(FlatPairs(GetAll(idx, Unique(QueryTokens(query)))))

\* The closure of terms.windows(2).map in InvertedIndex::phrase
PhrasePair(idx, term0, term1) ==
    IF term0 \in DOMAIN idx /\ term1 \in DOMAIN idx
    THEN IntersectPositionally(idx[term0], idx[term1])
    ELSE EmptyMap

\* A phrase evaluated as a Match of its tokens.
PhraseAsMatch(idx, phrase) == Postings(idx, phrase)

\* InvertedIndex::phrase
Phrase(idx, phrase) ==
    LET terms == QueryTokens(phrase)
        postings == [k \in 1..(IF Len(terms) = 0 THEN 0 ELSE Len(terms) - 1) |->
                        PhrasePair(idx, terms[k], terms[k + 1])]
    IN  IntersectPostings(postings)

\* The terms of self.index.range(min, max), in ascending order.
PrefixRange(idx, prefix) ==
    LET n == Len(prefix)
        next_char == Successor(prefix[n])
    IN  SortedTerms({t \in DOMAIN idx :
            /\ ~StrLess(t, prefix)
            /\ \/ next_char = None
               \/ StrLess(t, Append(SubSeq(prefix, 1, n - 1), next_char[1]))})

\* InvertedIndex::prefix
Prefix(idx, prefix) ==
    IF prefix = <<>> THEN EmptyMap
    ELSE LET terms == PrefixRange(idx, prefix)
         IN  MergeCoalesceMap(FlatPairs([k \in 1..Len(terms) |-> idx[terms[k]]]))

\* InvertedIndex::query_rec; a query is [kind, s, qs].
RECURSIVE QueryRec(_, _)
QueryRec(idx, query) ==
    CASE query.kind = "Match" -> Postings(idx, query.s)
      [] query.kind = "And" ->
            IntersectPostings([k \in 1..Len(query.qs) |-> QueryRec(idx, query.qs[k])])
      [] query.kind = "Or" ->
            MergeCoalesceMap(FlatPairs([k \in 1..Len(query.qs) |->
                                           QueryRec(idx, query.qs[k])]))
      [] query.kind = "Phrase" -> Phrase(idx, query.s)
      [] query.kind = "Prefix" -> Prefix(idx, query.s)

\* str::len: the byte length of a string.
RECURSIVE ByteLen(_)
ByteLen(s) == IF s = <<>> THEN 0 ELSE LenUtf8(Head(s)) + ByteLen(Tail(s))

RECURSIVE SumSpans(_)
SumSpans(positions) ==
    IF positions = <<>> THEN 0
    ELSE (Head(positions).offsets[2] - Head(positions).offsets[1])
         + SumSpans(Tail(positions))

\* SearchResult::new. The score sum / sqrt(len) is kept as <<sum, len>>.
NewSearchResult(doc_id, content, positions) ==
    [doc |-> doc_id, positions |-> positions,
     score |-> <<SumSpans(positions), ByteLen(content)>>]

\* score1 < score2 for scores sum / sqrt(len) with len > 0, compared exactly.
ScoreLess(score1, score2) ==
    score1[1] * score1[1] * score2[2] < score2[1] * score2[1] * score1[2]

\* Insertion before the elements that compare equal, as a sort that is not
\* stable may do.
RECURSIVE InsertSortedBeforeEqual(_, _)
InsertSortedBeforeEqual(sorted, result) ==
    IF sorted = <<>> THEN <<result>>
    ELSE IF ~ScoreLess(result.score, Head(sorted).score)
    THEN <<result>> \o sorted
    ELSE <<Head(sorted)>> \o InsertSortedBeforeEqual(Tail(sorted), result)

\* Insertion of a result into a list sorted by the comparator of sort_by,
\* after every element that does not compare greater (the sort is stable).
RECURSIVE InsertSorted(_, _)
InsertSorted(sorted, result) ==
    IF sorted = <<>> THEN <<result>>
    ELSE IF ScoreLess(Head(sorted).score, result.score)
    THEN <<result>> \o sorted
    ELSE <<Head(sorted)>> \o InsertSorted(Tail(sorted), result)

\* Results left in document-id order.
SortByScoreKeepingOrder(rs) == rs

\* results.sort_by(|r1, r2| r2.score.partial_cmp(&r1.score).unwrap())
RECURSIVE SortByScore(_)
SortByScore(rs) ==
    IF rs = <<>> THEN <<>>
    ELSE InsertSorted(SortByScore(SubSeq(rs, 1, Len(rs) - 1)), rs[Len(rs)])

\* A result for every stored document, matched or not.
ComputeResultsOfAllDocs(postings, ds) ==
    LET ids == SortedIds(DOMAIN ds)
    IN  SortByScore([k \in 1..Len(ids) |->
            NewSearchResult(ids[k], ds[ids[k]],
                            IF ids[k] \in DOMAIN postings THEN postings[ids[k]] ELSE <<>>)])

\* A merge panics in query_rec(query) or in the query_rec of one of its
\* sub-queries.
RECURSIVE QueryPanics(_, _)
QueryPanics(idx, query) ==
    \/ PostingsPanicked(QueryRec(idx, query))
    \/ \E k \in 1..Len(query.qs) : QueryPanics(idx, query.qs[k])

\* InvertedIndex::compute_results
ComputeResults(postings, ds) ==
    LET ids == SortedIds(DOMAIN postings)
    IN  SortByScore([k \in 1..Len(ids) |->
            NewSearchResult(ids[k], ds[ids[k]], postings[ids[k]])])

\* InvertedIndex::query
RunQuery(idx, ds, query) == ComputeResults(QueryRec(idx, query), ds)

\* &content[from..to]: the chars of the byte range, or a panic when the
\* range is reversed, ends after the content or cuts a char.
ByteSlice(content, from, to) ==
    LET starts == {ByteLen(SubSeq(content, 1, i - 1)) : i \in 1..(Len(content) + 1)}
        before_from == Cardinality({i \in 1..Len(content) :
                                       ByteLen(SubSeq(content, 1, i - 1)) < from})
        before_to == Cardinality({i \in 1..Len(content) :
                                     ByteLen(SubSeq(content, 1, i - 1)) < to})
    IN  IF from <= to /\ from \in starts /\ to \in starts
        THEN [ok |-> TRUE, s |-> SubSeq(content, before_from + 1, before_to)]
        ELSE [ok |-> FALSE, s |-> <<>>]

\* A highlight that leaves out the content after the last position.
RECURSIVE HighlightWithoutRest(_, _, _, _, _, _, _)
HighlightWithoutRest(content, positions, before, after, k, begin_idx, parts) ==
    IF k > Len(positions) THEN [out |-> parts, panicked |-> FALSE]
    ELSE HighlightWithoutRest(
             content, positions, before, after, k + 1, positions[k].offsets[2],
             parts \o ByteSlice(content, begin_idx, positions[k].offsets[1]).s \o before
                   \o ByteSlice(content, positions[k].offsets[1], positions[k].offsets[2]).s
                   \o after)

\* The loop of SearchResult::highlight from the k-th position on, and the
\* push of the rest of the content after it.
RECURSIVE HighlightFrom(_, _, _, _, _, _, _)
HighlightFrom(content, positions, before, after, k, begin_idx, parts) ==
    IF k > Len(positions)
    THEN LET rest == ByteSlice(content, begin_idx, ByteLen(content))
         IN  IF rest.ok THEN [out |-> parts \o rest.s, panicked |-> FALSE]
             ELSE [out |-> parts, panicked |-> TRUE]
    ELSE LET begin == positions[k].offsets[1]
             end == positions[k].offsets[2]
             plain == ByteSlice(content, begin_idx, begin)
             term == ByteSlice(content, begin, end)
         IN  IF ~plain.ok THEN [out |-> parts, panicked |-> TRUE]
             ELSE IF ~term.ok THEN [out |-> parts \o plain.s \o before, panicked |-> TRUE]
             ELSE HighlightFrom(content, positions, before, after, k + 1, end,
                                parts \o plain.s \o before \o term.s \o after)

\* SearchResult::highlight
HighlightResult(content, positions, before, after) ==
    HighlightFrom(content, positions, before, after, 1, 0, <<>>)

----------------------------------------------------------------------------
(* Inputs                                                                  *)

DocIds == {0, 1}

\* The words documents are made of: an upper-case letter (its term is "a"),
\* the maximum code point (4 bytes), and a two-char word.
Words == {<<Chr.A>>, <<Chr.M>>, <<Chr.a, Chr.M>>}

\* The most words in a document's content.
MaxWords == 2

RECURSIVE Join(_)
Join(ws) ==
    IF ws = <<>> THEN <<>>
    ELSE IF Len(ws) = 1 THEN ws[1]
    ELSE ws[1] \o <<Chr.sp>> \o Join(Tail(ws))

Contents == {Join(ws) : ws \in UNION {[1..n -> Words] : n \in 0..MaxWords}}

NoQuery == [kind |-> "None", s |-> <<>>, qs |-> <<>>]

\* Query constructors.
Leaf(kind, s) == [kind |-> kind, s |-> s, qs |-> <<>>]

Combined(kind, qs) == [kind |-> kind, s |-> <<>>, qs |-> qs]

\* The most tokens in the string of a Match or Phrase query.
MaxQueryTokens == 2

\* The most sub-queries of an And or Or query.
MaxSubQueries == 2

\* The words Match and Phrase queries are made of.
QueryWords == {<<Chr.A>>, <<Chr.a, Chr.M>>}

QueryStrings == {Join(ws) : ws \in UNION {[1..n -> QueryWords] : n \in 0..MaxQueryTokens}}

LeafQueries ==
    {Leaf("Match", s) : s \in QueryStrings}
    \cup {Leaf("Phrase", s) : s \in QueryStrings}
    \cup {Leaf("Prefix", s) : s \in Words \cup {<<>>, <<Chr.a>>}}

\* The sub-queries And and Or are built from.
SubQueries == {Leaf("Match", <<Chr.A>>), Leaf("Match", <<Chr.M>>)}

SubQueryLists == UNION {[1..n -> SubQueries] : n \in 0..MaxSubQueries}

Queries ==
    LeafQueries
    \cup {Combined("And", qs) : qs \in SubQueryLists}
    \cup {Combined("Or", qs) : qs \in SubQueryLists}

\* The queries search() makes: Match(s).
MatchQueries == {Leaf("Match", s) : s \in QueryStrings}

PhraseQueries == {Leaf("Phrase", s) : s \in QueryStrings}

----------------------------------------------------------------------------
(* The state machine                                                       *)

\* InvertedIndex::new()
Init ==
    /\ index = EmptyMap
    /\ docs = EmptyMap
    /\ panicked = FALSE
    /\ lastQuery = NoQuery
    /\ results = <<>>
    /\ highlighted = None
    /\ isect = None
    /\ tokIter = None
    /\ call = None
    /\ ret = None

\* index(Document::new(id, content)). It takes &mut self, so no results
\* (which borrow the documents) are alive. A panic ends the program: the
\* document store already holds the new version and the index is left as the
\* removal loop left it.
Index(id, content) ==
    /\ ~panicked
    /\ lastQuery = NoQuery
    /\ LET r == IndexDoc(index, docs, id, content)
       IN  /\ docs' = MapPut(docs, id, content)
           /\ index' = r.index
           /\ panicked' = r.panicked
    /\ lastQuery' = NoQuery
    /\ results' = <<>>
    /\ highlighted' = None
    /\ UNCHANGED partVars

\* A query that clears the index it has read.
QueryClearingIndex(q) ==
    /\ ~panicked
    /\ lastQuery = NoQuery
    /\ lastQuery' = q
    /\ panicked' = QueryPanics(index, q)
    /\ results' = IF panicked' THEN <<>> ELSE RunQuery(index, docs, q)
    /\ index' = EmptyMap
    /\ highlighted' = None
    /\ UNCHANGED docs
    /\ UNCHANGED partVars

\* query(&q); search(s) is query(&Match(s)). The results are kept until
\* the caller drops them; a panic in a merge ends the program.
Query(q) ==
    /\ ~panicked
    /\ lastQuery = NoQuery
    /\ lastQuery' = q
    /\ panicked' = QueryPanics(index, q)
    /\ results' = IF panicked' THEN <<>> ELSE RunQuery(index, docs, q)
    /\ highlighted' = None
    /\ UNCHANGED <<index, docs>>
    /\ UNCHANGED partVars

\* The caller drops the results of the last query.
DropResults ==
    /\ lastQuery # NoQuery
    /\ lastQuery' = NoQuery
    /\ results' = <<>>
    /\ highlighted' = None
    /\ UNCHANGED partVars
    /\ UNCHANGED <<index, docs, panicked>>

Next ==
    \/ \E id \in DocIds, content \in Contents : Index(id, content)
    \/ \E q \in Queries : Query(q)
    \/ DropResults

Spec == Init /\ [][Next]_vars

----------------------------------------------------------------------------
(* The index() calls alone.                                                *)

NextIndex == \E id \in DocIds, content \in Contents : Index(id, content)

SpecIndex == Init /\ [][NextIndex]_vars

----------------------------------------------------------------------------
(* The index() calls and search().                                         *)

NextSearch ==
    \/ \E id \in DocIds, content \in Contents : Index(id, content)
    \/ \E q \in MatchQueries : Query(q)
    \/ DropResults

SpecSearch == Init /\ [][NextSearch]_vars

----------------------------------------------------------------------------
(* One document, Match and Phrase queries, and highlight on the results.   *)

\* The (before, after) markers: "<" and ">", "*" and "*", "[[" and "".
Markers == {<< <<60>>, <<62>> >>, << <<42>>, <<42>> >>, << <<91, 91>>, <<>> >>}

\* results[k].highlight(before, after); the String is kept until the
\* results are dropped.
Highlight(k, before, after) ==
    /\ ~panicked
    /\ lastQuery # NoQuery
    /\ k \in 1..Len(results)
    /\ LET h == HighlightResult(docs[results[k].doc], results[k].positions, before, after)
       IN  /\ highlighted' = Some([result |-> k, before |-> before, after |-> after,
                                   out |-> h.out])
           /\ panicked' = h.panicked
    /\ UNCHANGED <<index, docs, lastQuery, results>>
    /\ UNCHANGED partVars

NextHighlight ==
    \/ \E content \in Contents : Index(0, content)
    \/ \E q \in MatchQueries \cup PhraseQueries : Query(q)
    \/ \E m \in Markers : Highlight(1, m[1], m[2])
    \/ DropResults

SpecHighlight == Init /\ [][NextHighlight]_vars

----------------------------------------------------------------------------
(* One document of up to MaxLongWords words, and Phrase queries.           *)

\* The most words in the content of the document.
MaxLongWords == 3

LongContents == {Join(ws) : ws \in UNION {[1..n -> Words] : n \in 0..MaxLongWords}}

NextLong ==
    \/ \E content \in LongContents : Index(0, content)
    \/ \E q \in PhraseQueries : Query(q)
    \/ DropResults

SpecLong == Init /\ [][NextLong]_vars

----------------------------------------------------------------------------
(* One document of words in either case, and searches for them.            *)

\* An ASCII capital, and the Greek sigma in its capital and its final form.
CaseWords == {<<Chr.A>>, <<Chr.Sigma>>, <<Chr.fsigma>>}

\* The most words in the content of the document and in the search string.
MaxCaseWords == 2

CaseStrings == {Join(ws) : ws \in UNION {[1..n -> CaseWords] : n \in 0..MaxCaseWords}}

CaseQueries == {Leaf("Match", s) : s \in CaseStrings}

NextCase ==
    \/ \E content \in CaseStrings : Index(0, content)
    \/ \E q \in CaseQueries : Query(q)
    \/ DropResults

SpecCase == Init /\ [][NextCase]_vars

----------------------------------------------------------------------------
(* An Intersection iterator on its own: next() called again and again on   *)
(* the key iterators of up to MaxIters maps.                                *)

\* No index is in use.
IndexUnused ==
    /\ index = EmptyMap
    /\ docs = EmptyMap
    /\ panicked = FALSE
    /\ lastQuery = NoQuery
    /\ results = <<>>
    /\ highlighted = None

\* Keys are 1..MaxKey.
MaxKey == 3

MaxIters == 3

\* BTreeMap::keys(): strictly increasing.
KeySeqs == {SortedIds(S) : S \in SUBSET (1..MaxKey)}

IterLists == UNION {[1..n -> KeySeqs] : n \in 1..MaxIters}

\* maps.intersection(): the iterators at the start of every map; given
\* (the keys of the maps) and yielded (the items next() has returned) are
\* kept by the caller, as is ended (next() has returned None).
InitIntersection ==
    /\ IndexUnused
    /\ tokIter = None
    /\ call = None
    /\ ret = None
    /\ \E its \in IterLists :
          isect = [given |-> its, iters |-> its, yielded |-> <<>>, ended |-> FALSE]

\* intersection.next()
IsectNext ==
    /\ LET r == IntersectionNext(isect.iters)
       IN  isect' = [isect EXCEPT
                        !.iters = r.iters,
                        !.yielded = IF r.item = None THEN @ ELSE Append(@, r.item[1]),
                        !.ended = @ \/ r.item = None]
    /\ UNCHANGED <<indexVars, tokIter, call, ret>>

NextIntersection == IsectNext

SpecIntersection == InitIntersection /\ [][NextIntersection]_vars

----------------------------------------------------------------------------
(* merge_coalesce and search_coalesce called on their own, on Vecs of      *)
(* Positions; the Positions of one token position are the intervals.       *)

\* Byte offsets are 0..MaxOffset.
MaxOffset == 4

\* Every Position of a non-empty byte range at token position 0 or 1.
Spans ==
    {NewPosition(offsets, position) :
        offsets \in {o \in (0..MaxOffset) \X (0..MaxOffset) : o[1] < o[2]},
        position \in {0, 1}}

\* Ascending by Ord.
Ascending(v) == \A k \in 1..(Len(v) - 1) : v[k] = v[k + 1] \/ PosLess(v[k], v[k + 1])

\* Strictly sorted, and merge joins no two neighbours.
StrictlyCoalesced(v) ==
    \A k \in 1..(Len(v) - 1) : PosLess(v[k], v[k + 1]) /\ Merge(v[k], v[k + 1]) = None

MaxVecLen == 2

\* The Vecs merged into and searched.
CoalescedVecs ==
    {v \in UNION {[1..n -> Spans] : n \in 0..MaxVecLen} : StrictlyCoalesced(v)}

MaxOtherLen == 2

\* The sequences merged in.
AscendingSeqs ==
    {o \in UNION {[1..n -> Spans] : n \in 0..MaxOtherLen} : Ascending(o)}

InitMergeCoalesce ==
    /\ IndexUnused
    /\ isect = None
    /\ tokIter = None
    /\ \E v \in CoalescedVecs, other \in AscendingSeqs :
          call = [f |-> "merge_coalesce", v |-> v, other |-> other]
    /\ ret = None

\* v.merge_coalesce(other): the v it leaves, and whether a merge panicked.
CallMergeCoalesce ==
    /\ call # None
    /\ call.f = "merge_coalesce"
    /\ ret = None
    /\ LET v == MergeCoalesce(call.v, call.other)
       IN  ret' = Some([v |-> v, panicked |-> VecPanicked(v)])
    /\ UNCHANGED <<indexVars, isect, tokIter, call>>

NextMergeCoalesce == CallMergeCoalesce

SpecMergeCoalesce == InitMergeCoalesce /\ [][NextMergeCoalesce]_vars

InitSearchCoalesce ==
    /\ IndexUnused
    /\ isect = None
    /\ tokIter = None
    /\ \E v \in CoalescedVecs, el \in Spans :
          \E start \in 0..Len(v) :
              call = [f |-> "search_coalesce", v |-> v, start |-> start, el |-> el]
    /\ ret = None

\* v.search_coalesce(start, el): the v it leaves, the index returned, and
\* whether a merge panicked.
CallSearchCoalesce ==
    /\ call # None
    /\ call.f = "search_coalesce"
    /\ ret = None
    /\ LET r == SearchCoalesce(call.v, call.start, call.el)
       IN  ret' = Some([v |-> r.v, idx |-> r.idx, panicked |-> VecPanicked(r.v)])
    /\ UNCHANGED <<indexVars, isect, tokIter, call>>

NextSearchCoalesce == CallSearchCoalesce

SpecSearchCoalesce == InitSearchCoalesce /\ [][NextSearchCoalesce]_vars

----------------------------------------------------------------------------
(* intersect_positionally called on its own, on the position lists two     *)
(* terms have for one document: a word at token position p begins at byte *)
(* WordStride * p, and a term matches its first one or two bytes.          *)

\* Token positions are 0..MaxPosition.
MaxPosition == 3

WordStride == 3

\* The Positions of a term at the words ps: one for each word, ascending.
PositionLists ==
    UNION {{[k \in 1..Len(SortedIds(ps)) |->
                NewPosition(<<WordStride * SortedIds(ps)[k],
                              WordStride * SortedIds(ps)[k] + ends[SortedIds(ps)[k]]>>,
                            SortedIds(ps)[k])] :
               ends \in [0..MaxPosition -> {1, 2}]} :
           ps \in SUBSET (0..MaxPosition)}

InitIntersectPositionally ==
    /\ IndexUnused
    /\ isect = None
    /\ tokIter = None
    /\ \E this \in PositionLists, other \in PositionLists :
          call = [f |-> "intersect_positionally", this |-> this, other |-> other]
    /\ ret = None

\* this.intersect_positionally(other)
CallIntersectPositionally ==
    /\ call # None
    /\ call.f = "intersect_positionally"
    /\ ret = None
    /\ ret' = Some(IntersectPositions(call.this, call.other))
    /\ UNCHANGED <<indexVars, isect, tokIter, call>>

NextIntersectPositionally == CallIntersectPositionally

SpecIntersectPositionally ==
    InitIntersectPositionally /\ [][NextIntersectPositionally]_vars

----------------------------------------------------------------------------
(* The tokenizer of byte streams (tokenizers.rs, util/char_utf8.rs). A     *)
(* byte is 0..255; a reader is [bytes, pos, buf_end, cap, fail_in]: the    *)
(* stream, the bytes consumed, the end of the bytes buffered, the capacity *)
(* of the buffer, and how many reads of the source succeed before one      *)
(* fails (None: every read succeeds).                                      *)

\* UTF8_CHAR_WIDTH / utf8_char_width
Utf8CharWidth(b) ==
    IF b < 128 THEN 1
    ELSE IF b < 194 THEN 0
    ELSE IF b < 224 THEN 2
    ELSE IF b < 240 THEN 3
    ELSE IF b < 245 THEN 4
    ELSE 0

IsCont(b) == b >= 128 /\ b < 192

\* str::from_utf8(&src[0..n]) for n = 2, 3, 4 and the char it holds:
\* None when the bytes are not the encoding of a scalar value.
FromUtf8(src, n) ==
    IF \E i \in 2..n : ~IsCont(src[i]) THEN None
    ELSE LET c == IF n = 2 THEN (src[1] % 32) * 64 + (src[2] % 64)
                  ELSE IF n = 3
                  THEN (src[1] % 16) * 4096 + (src[2] % 64) * 64 + (src[3] % 64)
                  ELSE (src[1] % 8) * 262144 + (src[2] % 64) * 4096
                       + (src[3] % 64) * 64 + (src[4] % 64)
         IN  IF \/ (n = 3 /\ c < 2048)
                \/ (n = 4 /\ c < 65536)
                \/ (c >= 55296 /\ c <= 57343)
                \/ c > 1114111
             THEN None
             ELSE Some(c)

\* decode_utf8: None or Some(<<n, c>>).
DecodeUtf8(src) ==
    IF Len(src) = 0 THEN None
    ELSE LET n == Utf8CharWidth(src[1])
         IN  IF n = 0 THEN None
             ELSE IF n = 1 THEN Some(<<1, src[1]>>)
             ELSE IF Len(src) < n THEN None
             ELSE LET c == FromUtf8(src, n)
                  IN  IF c = None THEN None ELSE Some(<<n, c[1]>>)

\* encode_utf8 / the bytes of a char in a String.
EncodeUtf8(c) ==
    IF c < 128 THEN <<c>>
    ELSE IF c < 2048 THEN <<192 + (c \div 64), 128 + (c % 64)>>
    ELSE IF c < 65536
    THEN <<224 + (c \div 4096), 128 + ((c \div 64) % 64), 128 + (c % 64)>>
    ELSE <<240 + (c \div 262144), 128 + ((c \div 4096) % 64),
           128 + ((c \div 64) % 64), 128 + (c % 64)>>

\* String::into_bytes
RECURSIVE IntoBytes(_)
IntoBytes(str) ==
    IF str = <<>> THEN <<>> ELSE EncodeUtf8(Head(str)) \o IntoBytes(Tail(str))

\* char::is_alphanumeric, on ASCII and Latin-1; no other char of the
\* inputs is a letter or a digit.
IsAlphanumeric(c) ==
    \/ c \in 48..57
    \/ c \in 65..90
    \/ c \in 97..122
    \/ c \in {170, 181, 186}
    \/ (c \in 192..255 /\ c \notin {215, 247})

\* Token::new
NewToken(token, offsets, position) ==
    [token |-> token, position |-> NewPosition(offsets, position)]

\* Token::empty
EmptyToken == NewToken(<<>>, <<0, 0>>, 0)

\* BufRead::consume
Consume(rdr, amt) == [rdr EXCEPT !.pos = @ + amt]

\* BufRead::fill_buf: [ok, buf, rdr]. The bytes left in the buffer are
\* returned without a read; an empty buffer is filled by one read of
\* the source, of at most cap bytes, which fails when fail_in is Some(0).
FillBuf(rdr) ==
    IF rdr.pos < rdr.buf_end
    THEN [ok |-> TRUE, buf |-> SubSeq(rdr.bytes, rdr.pos + 1, rdr.buf_end), rdr |-> rdr]
    ELSE IF rdr.fail_in = Some(0)
    THEN [ok |-> FALSE, buf |-> <<>>, rdr |-> [rdr EXCEPT !.fail_in = None]]
    ELSE LET end == IF rdr.pos + rdr.cap < Len(rdr.bytes) THEN rdr.pos + rdr.cap
                    ELSE Len(rdr.bytes)
         IN  [ok |-> TRUE, buf |-> SubSeq(rdr.bytes, rdr.pos + 1, end),
              rdr |-> [rdr EXCEPT !.buf_end = end,
                                  !.fail_in = IF @ = None THEN None ELSE Some(@[1] - 1)]]

\* The while loop of EnglishUtf8::read over one buffer:
\* [brk, consumed, offset, tok], brk when it left by break 'LOOP.
RECURSIVE ReadBuf(_, _, _, _)
ReadBuf(buf, consumed, offset, tok) ==
    IF consumed >= Len(buf)
    THEN [brk |-> FALSE, consumed |-> consumed, offset |-> offset, tok |-> tok]
    ELSE LET d == DecodeUtf8(SubSeq(buf, consumed + 1, Len(buf)))
         IN  IF d = None THEN ReadBuf(buf, consumed + 1, offset + 1, tok)
             ELSE LET n == d[1][1]
                      c == d[1][2]
                  IN  IF IsWhitespaceChar(c)
                      THEN IF tok.token = <<>>
                           THEN ReadBuf(buf, consumed + n, offset + n, tok)
                           ELSE [brk |-> TRUE, consumed |-> consumed + n,
                                 offset |-> offset + n, tok |-> tok]
                      ELSE IF ~IsAlphanumeric(c)
                      THEN ReadBuf(buf, consumed + n, offset + n, tok)
                      ELSE ReadBuf(buf, consumed + n, offset + n,
                                   [token |-> Append(tok.token, c),
                                    position |-> NewPosition(
                                        <<IF tok.token = <<>> THEN offset
                                          ELSE tok.position.offsets[1],
                                          offset + n>>,
                                        tok.position.position)])

\* The end of EnglishUtf8::read after break 'LOOP.
ReadDone(t, consumed, tok) ==
    [res |-> "Ok(true)",
     t |-> [t EXCEPT !.rdr = Consume(@, consumed), !.num_tokens = @ + 1],
     tok |-> [tok EXCEPT !.position.position = t.num_tokens]]

\* 'LOOP of EnglishUtf8::read: [res, t, tok] with res "Ok(true)",
\* "Ok(false)" or "Err"; t is [rdr, offset, num_tokens].
RECURSIVE ReadLoop(_, _, _)
ReadLoop(t, consumed, tok) ==
    LET f == FillBuf(Consume(t.rdr, consumed))
    IN  IF ~f.ok THEN [res |-> "Err", t |-> [t EXCEPT !.rdr = f.rdr], tok |-> tok]
        ELSE IF f.buf = <<>>
        THEN IF tok.token = <<>>
             THEN [res |-> "Ok(false)", t |-> [t EXCEPT !.rdr = f.rdr], tok |-> tok]
             ELSE ReadDone([t EXCEPT !.rdr = f.rdr], 0, tok)
        ELSE LET w == ReadBuf(f.buf, 0, t.offset, tok)
                 t1 == [t EXCEPT !.rdr = f.rdr, !.offset = w.offset]
             IN  IF w.brk THEN ReadDone(t1, w.consumed, w.tok)
                 ELSE ReadLoop(t1, w.consumed, w.tok)

\* EnglishUtf8::read
Read(t, tok) == ReadLoop(t, 0, [tok EXCEPT !.token = <<>>])

\* EnglishUtf8::new
NewEnglishUtf8(rdr) == [rdr |-> rdr, offset |-> 0, num_tokens |-> 0]

\* An iterator that forgets that read has failed.
IterNextForgetting(iter) ==
    LET r == ReadLoop(iter.tokenizer, 0, EmptyToken)
    IN  IF r.res = "Ok(true)"
        THEN [item |-> Some(<<"Ok", r.tok>>), iter |-> [iter EXCEPT !.tokenizer = r.t]]
        ELSE IF r.res = "Ok(false)"
        THEN [item |-> None, iter |-> [iter EXCEPT !.tokenizer = r.t]]
        ELSE [item |-> Some(<<"Err">>), iter |-> [iter EXCEPT !.tokenizer = r.t]]

\* The match of Iter::next on r, what read has returned.
IterMatch(iter, r) ==
    IF r.res = "Ok(true)"
    THEN [item |-> Some(<<"Ok", r.tok>>), iter |-> [iter EXCEPT !.tokenizer = r.t]]
    ELSE IF r.res = "Ok(false)"
    THEN [item |-> None, iter |-> [iter EXCEPT !.tokenizer = r.t]]
    ELSE [item |-> Some(<<"Err">>),
          iter |-> [iter EXCEPT !.tokenizer = r.t, !.err = TRUE]]

\* Iter::next on [tokenizer, err]: [item, iter], the item None,
\* Some(<<"Ok", tok>>) or Some(<<"Err">>).
IterNext(iter) ==
    IF iter.err THEN [item |-> None, iter |-> iter]
    ELSE IterMatch(iter, Read(iter.tokenizer, EmptyToken))

----------------------------------------------------------------------------
(* The iterator of an EnglishUtf8 tokenizer on its own: next() called      *)
(* again and again, over a reader of some capacity whose source may fail   *)
(* on one read.                                                            *)

\* 'A', ' ', ',' and U+00E9 (two bytes in UTF-8).
TokChars == {65, 32, 44, 233}

MaxChars == 3

\* The bytes of every String of up to MaxChars chars.
ByteStreams == {IntoBytes(str) : str \in UNION {[1..n -> TokChars] : n \in 0..MaxChars}}

\* BufReader::with_capacity(cap, _) for cap up to MaxCap.
MaxCap == 2

\* The source fails on its first read or after up to MaxReads reads.
MaxReads == 2

\* The readers of a stream: BufReaders of a small capacity, and a Cursor,
\* whose fill_buf returns all the bytes left. fail_in is None or the
\* number of reads before the one that fails.
Readers ==
    {[bytes |-> bytes, pos |-> 0, buf_end |-> 0, cap |-> cap, fail_in |-> fail_in] :
        bytes \in ByteStreams,
        cap \in 1..MaxCap,
        fail_in \in {None} \cup {Some(k) : k \in 0..MaxReads}}
    \cup {[bytes |-> bytes, pos |-> 0, buf_end |-> 0, cap |-> Len(bytes) + 1,
           fail_in |-> fail_in] :
        bytes \in ByteStreams,
        fail_in \in {None} \cup {Some(k) : k \in 0..MaxReads}}

\* EnglishUtf8::new(rdr).into_iter(); given (the reader), items (the items
\* next() has returned) and ended (next() has returned None) are kept by
\* the caller.
InitTokenizer ==
    /\ IndexUnused
    /\ isect = None
    /\ call = None
    /\ ret = None
    /\ \E rdr \in Readers :
          tokIter = [given |-> rdr,
                     iter |-> [tokenizer |-> NewEnglishUtf8(rdr), err |-> FALSE],
                     items |-> <<>>,
                     ended |-> FALSE]

\* iter.next()
TokenNext ==
    /\ LET r == IterNext(tokIter.iter)
       IN  tokIter' = [tokIter EXCEPT
                          !.iter = r.iter,
                          !.items = IF r.item = None THEN @ ELSE Append(@, r.item[1]),
                          !.ended = @ \/ r.item = None]
    /\ UNCHANGED <<indexVars, isect, call, ret>>

NextTokenizer == TokenNext

SpecTokenizer == InitTokenizer /\ [][NextTokenizer]_vars

----------------------------------------------------------------------------
(* The two analyzers called on their own, on one string                    *)

\* The chars of the strings: a space, a capital, a two-byte letter, the
\* capital whose lowercase form is two chars, and a three-byte space.
AnalyzeChars == {32, 65, 233, 304, 12288}

\* Strings have at most MaxStrLen chars.
MaxStrLen == 4

AnalyzeStrings == UNION {[1..n -> AnalyzeChars] : n \in 0..MaxStrLen}

InitAnalyze ==
    /\ IndexUnused
    /\ isect = None
    /\ tokIter = None
    /\ \E s \in AnalyzeStrings : call = [f |-> "analyze", s |-> s]
    /\ ret = [ngrams |-> None, whitespace |-> None]

\* NgramsAnalyzer.analyze(s).collect()
CallNgramsAnalyze ==
    /\ call # None
    /\ call.f = "analyze"
    /\ ret.ngrams = None
    /\ ret' = [ret EXCEPT !.ngrams = Some(NgramsAnalyze(call.s))]
    /\ UNCHANGED <<indexVars, isect, tokIter, call>>

\* WhitespaceAnalyzer.analyze(s).collect()
CallWhitespaceAnalyze ==
    /\ call # None
    /\ call.f = "analyze"
    /\ ret.whitespace = None
    /\ ret' = [ret EXCEPT !.whitespace = Some(WhitespaceAnalyze(call.s))]
    /\ UNCHANGED <<indexVars, isect, tokIter, call>>

NextAnalyze == CallNgramsAnalyze \/ CallWhitespaceAnalyze

SpecAnalyze == InitAnalyze /\ [][NextAnalyze]_vars

----------------------------------------------------------------------------
(* successor called on its own, on one char                                *)

\* The chars are those within MaxNear of an end of the two ranges of
\* Unicode scalar values, 0..0xD7FF and 0xE000..0x10FFFF.
MaxNear == 30

SuccessorChars ==
    (0..MaxNear) \cup ((55295 - MaxNear)..55295)
    \cup (57344..(57344 + MaxNear)) \cup ((1114111 - MaxNear)..1114111)

InitSuccessor ==
    /\ IndexUnused
    /\ isect = None
    /\ tokIter = None
    /\ \E c \in SuccessorChars : call = [f |-> "successor", c |-> c]
    /\ ret = None

\* c.successor()
CallSuccessor ==
    /\ call # None
    /\ call.f = "successor"
    /\ ret = None
    /\ ret' = Some(Successor(call.c))
    /\ UNCHANGED <<indexVars, isect, tokIter, call>>

NextSuccessor == CallSuccessor

SpecSuccessor == InitSuccessor /\ [][NextSuccessor]_vars

----------------------------------------------------------------------------
(* What the claims speak of, stated from the stored contents alone         *)

\* The 1-based char indices at which a whitespace-delimited word starts.
WordStarts(s) ==
    {i \in 1..Len(s) :
        ~IsWhitespaceChar(s[i]) /\ (i = 1 \/ IsWhitespaceChar(s[i - 1]))}

\* The index of the last char of the word starting at i.
WordEnd(s, i) ==
    CHOOSE j \in i..Len(s) :
        /\ \A k \in i..j : ~IsWhitespaceChar(s[k])
        /\ (j = Len(s) \/ IsWhitespaceChar(s[j + 1]))

NumWords(s) == Cardinality(WordStarts(s))

\* The start of the word with token position n (0-based).
WordStartAt(s, n) ==
    CHOOSE i \in WordStarts(s) : Cardinality({j \in WordStarts(s) : j < i}) = n

\* The word with token position n.
WordAt(s, n) == SubSeq(s, WordStartAt(s, n), WordEnd(s, WordStartAt(s, n)))

\* The lowercase form of a string.
RECURSIVE LowerForm(_)
LowerForm(s) ==
    IF s = <<>> THEN <<>>
    ELSE (IF Head(s) \in 65..90 THEN <<Head(s) + 32>> ELSE <<Head(s)>>)
         \o LowerForm(Tail(s))

\* The lowercase forms of the whitespace-delimited tokens of a query string.
LowerTokens(q) == [n \in 1..NumWords(q) |-> LowerForm(WordAt(q, n - 1))]

\* Term t is the lowercase form of a character prefix of word w.
IsLowerPrefix(t, w) == \E k \in 1..Len(w) : LowerForm(SubSeq(w, 1, k)) = t

\* The terms of a content: the lowercase forms of the prefixes of its words.
TermsOf(content) ==
    {LowerForm(SubSeq(WordAt(content, n), 1, k)) :
        <<n, k>> \in {x \in (0..(Len(content) - 1)) \X (1..Len(content)) :
                        x[1] < NumWords(content)
                        /\ x[2] <= Len(WordAt(content, x[1]))}}

\* The byte offset of the char at 1-based index i.
ByteOffset(s, i) == ByteLen(SubSeq(s, 1, i - 1))

\* The positions at which term t occurs in a content: one for each word
\* with a prefix whose lowercase form is t, spanning that prefix.
PositionsOf(content, t) ==
    {NewPosition(<<ByteOffset(content, WordStartAt(content, x[1])),
                   ByteOffset(content, WordStartAt(content, x[1]) + x[2])>>, x[1]) :
        x \in {y \in (0..(Len(content) - 1)) \X (1..Len(content)) :
                 /\ y[1] < NumWords(content)
                 /\ y[2] <= Len(WordAt(content, y[1]))
                 /\ LowerForm(SubSeq(WordAt(content, y[1]), 1, y[2])) = t}}

\* The ids of the documents the index lists under term t.
ListedUnder(idx, t) == IF t \in DOMAIN idx THEN DOMAIN idx[t] ELSE {}

\* The terms under which the index lists document id.
TermsListing(idx, id) == {t \in DOMAIN idx : id \in DOMAIN idx[t]}

\* The ids of the documents of a result list.
ResultDocs(rs) == {rs[k].doc : k \in 1..Len(rs)}

\* The positions of document id in a result list that holds it.
ResultPositions(rs, id) == rs[CHOOSE k \in 1..Len(rs) : rs[k].doc = id].positions

\* Two positions are mergeable: same token position, touching or
\* overlapping byte ranges.
Mergeable(x, y) ==
    /\ x.position = y.position
    /\ x.offsets[1] <= y.offsets[2]
    /\ y.offsets[1] <= x.offsets[2]

\* A list of positions is strictly increasing and holds no two mergeable
\* positions.
SortedCoalesced(v) ==
    /\ \A k \in 1..(Len(v) - 1) : PosLess(v[k], v[k + 1])
    /\ \A j, k \in 1..Len(v) : j < k => ~Mergeable(v[j], v[k])

\* The (token position, byte) pairs a set of positions covers.
Covered(ps) ==
    UNION {{<<x.position, b>> : b \in x.offsets[1]..(x.offsets[2] - 1)} : x \in ps}

Elements(v) == {v[k] : k \in 1..Len(v)}

\* v is the sorted coalesced union of the positions ps.
IsCoalescedUnion(v, ps) == SortedCoalesced(v) /\ Covered(Elements(v)) = Covered(ps)

\* An index step: no results are held before or after it.
IndexStep == lastQuery = NoQuery /\ lastQuery' = NoQuery

----------------------------------------------------------------------------
(* The index built by one pass over the documents of ds in the order ids.  *)
RECURSIVE SinglePass(_, _, _)
SinglePass(ds, ids, k) ==
    IF k = 0 THEN EmptyMap
    ELSE IndexDoc(SinglePass(ds, ids, k - 1), EmptyMap, ids[k], ds[ids[k]]).index

\* The orders in which the ids of S can be indexed.
Orders(S) ==
    {o \in [1..Cardinality(S) -> S] : \A i, j \in DOMAIN o : i # j => o[i] # o[j]}

\* C1: after any sequence of index() calls the Index equals the index built
\* by indexing each stored document exactly once into an empty index, in
\* any order of the documents.
C1_IndexEqualsSinglePass ==
    \A o \in Orders(DOMAIN docs) : index = SinglePass(docs, o, Len(o))

\* C2: after index(d) replaces a stored document, the store holds the new
\* content under d.id, the Index lists d.id under exactly the terms of the
\* new content, and a search for a term of the previous content only does
\* not return the document.
C2_ReindexReflectsNewContent ==
    [][\A id \in DOMAIN docs :
          (IndexStep /\ docs'[id] # docs[id]) =>
              /\ DOMAIN docs' = DOMAIN docs
              /\ TermsListing(index', id) = TermsOf(docs'[id])
              /\ \A t \in TermsOf(docs[id]) \ TermsOf(docs'[id]) :
                    id \notin ResultDocs(RunQuery(index', docs', Leaf("Match", t)))]_vars

\* C3: index(d) replacing a stored document completes without failure in
\* every reachable index state, also when the previous content yields the
\* same term from two words.
C3_ReindexNeverFails == ~panicked

----------------------------------------------------------------------------
(* Queries                                                                 *)

\* Some word of the content has token t as the lowercase form of a prefix.
HasWordWithPrefix(content, t) ==
    \E n \in 0..(NumWords(content) - 1) : IsLowerPrefix(t, WordAt(content, n))

\* The documents a Match of q is to return.
MatchingDocs(ds, q) ==
    LET toks == LowerTokens(q)
    IN  {id \in DOMAIN ds : \E j \in 1..Len(toks) : HasWordWithPrefix(ds[id], toks[j])}

\* C4: search(q) returns a document iff some word of its stored content has
\* a prefix whose lowercase form is the lowercase form of a token of q, each
\* document once; a query none of whose tokens is an index term returns the
\* empty list.
C4_MatchReturnsPrefixMatches ==
    lastQuery.kind = "Match" =>
        /\ ResultDocs(results) = MatchingDocs(docs, lastQuery.s)
        /\ Len(results) = Cardinality(ResultDocs(results))
        /\ LET toks == LowerTokens(lastQuery.s)
           IN  (\A j \in 1..Len(toks) : toks[j] \notin DOMAIN index) => results = <<>>

\* A search with a token that is an index term and a token that is not,
\* written in upper case, that returns one stored document and not the other.
C4_Witness ==
    /\ lastQuery.kind = "Match"
    /\ \E j \in 1..NumWords(lastQuery.s) : LowerTokens(lastQuery.s)[j] \in DOMAIN index
    /\ \E j \in 1..NumWords(lastQuery.s) : LowerTokens(lastQuery.s)[j] \notin DOMAIN index
    /\ \E j \in 1..NumWords(lastQuery.s) :
            LowerTokens(lastQuery.s)[j] # WordAt(lastQuery.s, j - 1)
    /\ Len(results) = 1
    /\ Cardinality(DOMAIN docs) = 2

\* The content holds the tokens toks as lowercased prefixes of consecutive
\* words.
ContainsPhrase(content, toks) ==
    \E i \in 0..(NumWords(content) - 1) :
        \A j \in 1..Len(toks) :
            /\ i + j - 1 < NumWords(content)
            /\ IsLowerPrefix(toks[j], WordAt(content, i + j - 1))

\* C5: every document returned by query(Phrase(p)), p of two or more
\* tokens, contains the phrase: its tokens are lowercased prefixes of
\* consecutive words of the document, in order.
C5_PhraseResultsContainPhrase ==
    (lastQuery.kind = "Phrase" /\ NumWords(lastQuery.s) >= 2) =>
        \A id \in ResultDocs(results) :
            ContainsPhrase(docs[id], LowerTokens(lastQuery.s))

\* String t begins with p.
StartsWith(t, p) == Len(t) >= Len(p) /\ SubSeq(t, 1, Len(p)) = p

\* The terms of a content that begin with p.
TermsWithPrefix(content, p) == {t \in TermsOf(content) : StartsWith(t, p)}

\* C6: query(Prefix(p)), p non-empty, returns only documents that contain an
\* index term beginning with p, also when the last char of p is the maximum
\* code point.
C6_PrefixResultsHoldPrefix ==
    (lastQuery.kind = "Prefix" /\ lastQuery.s # <<>>) =>
        \A id \in ResultDocs(results) : TermsWithPrefix(docs[id], lastQuery.s) # {}

\* C7: query(Prefix(p)), p non-empty, returns every document that contains
\* an index term beginning with p, each with the sorted coalesced union of
\* the positions of all such terms in the document.
C7_PrefixReturnsAllWithUnion ==
    (lastQuery.kind = "Prefix" /\ lastQuery.s # <<>>) =>
        \A id \in DOMAIN docs :
            TermsWithPrefix(docs[id], lastQuery.s) # {} =>
                /\ id \in ResultDocs(results)
                /\ IsCoalescedUnion(
                       ResultPositions(results, id),
                       UNION {PositionsOf(docs[id], t) :
                                 t \in TermsWithPrefix(docs[id], lastQuery.s)})

\* The result lists of the sub-queries of the last query.
SubResults == [k \in 1..Len(lastQuery.qs) |-> RunQuery(index, docs, lastQuery.qs[k])]

\* The positions document id has in the result lists rs that hold it.
PositionsIn(rs, id) ==
    UNION {Elements(ResultPositions(rs[k], id)) :
              k \in {j \in 1..Len(rs) : id \in ResultDocs(rs[j])}}

\* Every list of rs that holds document id holds it with sorted coalesced
\* positions.
AllSortedCoalesced(rs, id) ==
    \A k \in 1..Len(rs) :
        id \in ResultDocs(rs[k]) => SortedCoalesced(ResultPositions(rs[k], id))

\* C8: query(And(qs)) of a non-empty qs returns exactly the documents every
\* sub-query returns, each once, and, when the sub-queries' positions for a
\* document are sorted and coalesced, with the sorted coalesced union of
\* them; And of the empty list returns nothing.
C8_AndIntersects ==
    lastQuery.kind = "And" =>
        IF lastQuery.qs = <<>> THEN results = <<>>
        ELSE LET subs == SubResults
             IN  /\ ResultDocs(results) =
                        {id \in DOMAIN docs :
                            \A k \in 1..Len(subs) : id \in ResultDocs(subs[k])}
                 /\ Len(results) = Cardinality(ResultDocs(results))
                 /\ \A id \in ResultDocs(results) :
                        AllSortedCoalesced(subs, id) =>
                            IsCoalescedUnion(ResultPositions(results, id),
                                             PositionsIn(subs, id))

\* An And of two sub-queries that returns one document, with positions
\* neither sub-query returns for it, and not the other document, which one
\* sub-query returns.
C8_Witness ==
    /\ lastQuery.kind = "And"
    /\ Len(lastQuery.qs) = 2
    /\ Len(results) = 1
    /\ \A k \in 1..2 :
          ResultPositions(SubResults[k], results[1].doc) # results[1].positions
    /\ \E k \in 1..2 : Len(SubResults[k]) = 2

\* The query with the sub-queries of q in the order o.
Reordered(q, o) == Combined(q.kind, [k \in 1..Len(o) |-> q.qs[o[k]]])

\* C9: query(Or(qs)) returns exactly the documents some sub-query returns,
\* each once, and, when the sub-queries' positions for a document are sorted
\* and coalesced, with the sorted coalesced union of its positions in the
\* sub-query results that hold it, whatever the order of the sub-queries.
C9_OrUnites ==
    lastQuery.kind = "Or" =>
        LET subs == SubResults
            sorted == {id \in ResultDocs(results) : AllSortedCoalesced(subs, id)}
        IN  /\ ResultDocs(results) =
                  {id \in DOMAIN docs :
                      \E k \in 1..Len(subs) : id \in ResultDocs(subs[k])}
            /\ Len(results) = Cardinality(ResultDocs(results))
            /\ \A id \in sorted :
                  IsCoalescedUnion(ResultPositions(results, id), PositionsIn(subs, id))
            /\ \A o \in Orders(1..Len(lastQuery.qs)) :
                  LET rs == RunQuery(index, docs, Reordered(lastQuery, o))
                  IN  \A id \in sorted :
                          /\ id \in ResultDocs(rs)
                          /\ ResultPositions(rs, id) = ResultPositions(results, id)

\* An Or of two sub-queries that returns two documents, one that both
\* sub-queries return, with positions neither returns for it, and one that
\* only one sub-query returns.
C9_Witness ==
    /\ lastQuery.kind = "Or"
    /\ Len(lastQuery.qs) = 2
    /\ Len(results) = 2
    /\ \E i \in 1..2 :
          /\ \A k \in 1..2 : results[i].doc \in ResultDocs(SubResults[k])
          /\ \A k \in 1..2 :
                ResultPositions(SubResults[k], results[i].doc) # results[i].positions
    /\ \E i \in 1..2, k \in 1..2 : results[i].doc \notin ResultDocs(SubResults[k])

\* The sum of end - begin over the positions v[1..k].
RECURSIVE SpanTotal(_, _)
SpanTotal(v, k) ==
    IF k = 0 THEN 0 ELSE SpanTotal(v, k - 1) + (v[k].offsets[2] - v[k].offsets[1])

\* score(r1) >= score(r2) for score = span total / sqrt(byte length of the
\* content), compared as total1^2 * length2 >= total2^2 * length1.
ScoreAtLeast(r1, r2) ==
    LET t1 == SpanTotal(r1.positions, Len(r1.positions))
        t2 == SpanTotal(r2.positions, Len(r2.positions))
        n1 == ByteOffset(docs[r1.doc], Len(docs[r1.doc]) + 1)
        n2 == ByteOffset(docs[r2.doc], Len(docs[r2.doc]) + 1)
    IN  t1 * t1 * n2 >= t2 * t2 * n1

\* C10: in the list query returns, every result's score is not smaller than
\* the score of the result after it.
C10_ResultsByDescendingScore ==
    lastQuery # NoQuery =>
        \A k \in 1..(Len(results) - 1) : ScoreAtLeast(results[k], results[k + 1])

\* Two results of different scores, the document with the greater id first:
\* the sort moved it there.
C10_Witness ==
    /\ lastQuery # NoQuery
    /\ Len(results) = 2
    /\ results[1].doc > results[2].doc
    /\ ~ScoreAtLeast(results[2], results[1])

----------------------------------------------------------------------------
(* Order of positions                                                      *)

\* C11: the positions list of every returned result is strictly increasing
\* in (offsets, position) order and holds no two neighbours that are
\* mergeable.
C11_PositionsSortedCoalesced ==
    lastQuery # NoQuery =>
        \A r \in 1..Len(results) :
            \A k \in 1..(Len(results[r].positions) - 1) :
                /\ PosLess(results[r].positions[k], results[r].positions[k + 1])
                /\ ~Mergeable(results[r].positions[k], results[r].positions[k + 1])

----------------------------------------------------------------------------
(* Offsets                                                                 *)

\* The byte offsets at which a char of the content starts, and its end.
CharBoundaries(content) == {ByteOffset(content, i) : i \in 1..(Len(content) + 1)}

\* content[begin..end] for char boundaries begin <= end.
Slice(content, begin, end) ==
    LET i == CHOOSE n \in 1..(Len(content) + 1) : ByteOffset(content, n) = begin
        j == CHOOSE n \in 1..(Len(content) + 1) : ByteOffset(content, n) = end
    IN  SubSeq(content, i, j - 1)

\* C12: for search(t) with a single token t, every position (begin, end) of
\* every result has begin < end <= byte length of the content, begin and end
\* on char boundaries of the content, and the lowercase form of
\* content[begin..end] is the lowercase form of t.
C12_MatchPositionsSpanToken ==
    (lastQuery.kind = "Match" /\ NumWords(lastQuery.s) = 1) =>
        \A r \in 1..Len(results) :
            \A k \in 1..Len(results[r].positions) :
                LET content == docs[results[r].doc]
                    begin == results[r].positions[k].offsets[1]
                    end == results[r].positions[k].offsets[2]
                IN  /\ begin < end
                    /\ end <= ByteOffset(content, Len(content) + 1)
                    /\ begin \in CharBoundaries(content)
                    /\ end \in CharBoundaries(content)
                    /\ LowerForm(Slice(content, begin, end)) = LowerTokens(lastQuery.s)[1]

\* A one-token search returns a position that starts after a multi-byte char
\* and ends with one.
C12_Witness ==
    /\ lastQuery.kind = "Match"
    /\ NumWords(lastQuery.s) = 1
    /\ \E r \in 1..Len(results) :
          \E k \in 1..Len(results[r].positions) :
              LET p == results[r].positions[k]
              IN  /\ p.offsets[1] >= 4
                  /\ p.offsets[2] - p.offsets[1] > 1

----------------------------------------------------------------------------
(* Redundant tokens                                                        *)

\* The char lengths of the prefixes of word n of the content whose
\* lowercase form is one of the tokens.
MatchedLengths(content, n, toks) ==
    LET w == WordAt(content, n)
    IN  {k \in 1..Len(w) : \E j \in 1..Len(toks) : LowerForm(SubSeq(w, 1, k)) = toks[j]}

\* The largest number of a non-empty set of numbers.
Maximum(S) == CHOOSE x \in S : \A y \in S : y <= x

\* One position for each word of the content that a token matches: the span
\* of its longest match.
LongestMatches(content, toks) ==
    UNION {LET lengths == MatchedLengths(content, n, toks)
               start == WordStartAt(content, n)
           IN  IF lengths = {} THEN {}
               ELSE {NewPosition(<<ByteOffset(content, start),
                                   ByteOffset(content, start + Maximum(lengths))>>, n)} :
           n \in 0..(NumWords(content) - 1)}

\* C13: search("t t") returns what search("t") returns, and each word of a
\* returned document that query tokens match contributes exactly one
\* position, the span of the longest match.
C13_RedundantTokens ==
    lastQuery.kind = "Match" =>
        LET toks == LowerTokens(lastQuery.s)
        IN  /\ Len(toks) = 1 =>
                  results = RunQuery(index, docs,
                                     Leaf("Match", lastQuery.s \o <<Chr.sp>> \o lastQuery.s))
            /\ \A r \in 1..Len(results) :
                  LET expected == LongestMatches(docs[results[r].doc], toks)
                  IN  /\ Elements(results[r].positions) = expected
                      /\ Len(results[r].positions) = Cardinality(expected)

\* A search with two tokens, one a proper prefix of the other, that both
\* match the same word of a returned document.
C13_Witness ==
    /\ lastQuery.kind = "Match"
    /\ \E r \in 1..Len(results) :
          \E n \in 0..(NumWords(docs[results[r].doc]) - 1) :
              Cardinality(MatchedLengths(docs[results[r].doc], n,
                                         LowerTokens(lastQuery.s))) = 2

----------------------------------------------------------------------------
(* Letter case                                                             *)

\* The same letter in the other case: char::to_uppercase of a lowercase
\* letter, char::to_lowercase of a capital.
SwapCase(c) ==
    IF c \in 65..90 THEN c + 32
    ELSE IF c \in 97..122 THEN c - 32
    ELSE IF c = Chr.Sigma THEN Chr.sigma
    ELSE IF c \in {Chr.sigma, Chr.fsigma} THEN Chr.Sigma
    ELSE c

\* The strings that differ from s in the case of some of its letters.
CaseVariants(s) ==
    {t \in [1..Len(s) -> {s[i] : i \in 1..Len(s)} \cup {SwapCase(s[i]) : i \in 1..Len(s)}] :
        \A i \in 1..Len(s) : t[i] \in {s[i], SwapCase(s[i])}}

\* The documents and positions of a result list, in its order.
DocsAndPositions(rs) == [k \in 1..Len(rs) |-> <<rs[k].doc, rs[k].positions>>]

\* C14: the documents returned by a search and their positions do not
\* change when the case of letters of the query string or of the indexed
\* content is changed.
C14_CaseInsensitive ==
    lastQuery.kind = "Match" =>
        /\ \A t \in CaseVariants(lastQuery.s) :
              DocsAndPositions(RunQuery(index, docs, Leaf("Match", t)))
                  = DocsAndPositions(results)
        /\ \A id \in DOMAIN docs :
              \A c \in CaseVariants(docs[id]) :
                  LET ds == MapPut(docs, id, c)
                      o == CHOOSE x \in Orders(DOMAIN ds) : TRUE
                  IN  DocsAndPositions(RunQuery(SinglePass(ds, o, Len(o)), ds, lastQuery))
                          = DocsAndPositions(results)

----------------------------------------------------------------------------
(* Short phrases                                                           *)

\* C15: query(Phrase(p)) with p of no token or one token returns the empty
\* list in every index state, also when the token is an index term.
C15_ShortPhraseIsEmpty ==
    (lastQuery.kind = "Phrase" /\ NumWords(lastQuery.s) <= 1) => results = <<>>

\* A Phrase of one token that is an index term.
C15_Witness ==
    /\ lastQuery.kind = "Phrase"
    /\ NumWords(lastQuery.s) = 1
    /\ LowerTokens(lastQuery.s)[1] \in DOMAIN index
    /\ ~panicked

----------------------------------------------------------------------------
(* Index and document store                                                *)

\* The terms the document analyzer produces from a content.
AnalyzedTerms(content) == {DocAnalyze(content)[k][1] : k \in 1..Len(DocAnalyze(content))}

\* C16: after every index() call, every (term, docId) of the Index has
\* docId in the document store and term among the terms the document
\* analyzer produces from the stored content of docId, and every term the
\* analyzer produces from a stored document is recorded for that document.
C16_IndexMatchesStore ==
    /\ \A t \in DOMAIN index :
          \A id \in DOMAIN index[t] :
              id \in DOMAIN docs /\ t \in AnalyzedTerms(docs[id])
    /\ \A id \in DOMAIN docs :
          \A t \in AnalyzedTerms(docs[id]) : t \in DOMAIN index /\ id \in DOMAIN index[t]

\* C17: after every index() call no term of the Index maps to an empty
\* postings map and no document id maps to an empty positions list: the key
\* of a term whose last document a re-index removed is gone.
C17_NoEmptyPostings ==
    \A t \in DOMAIN index :
        /\ DOMAIN index[t] # {}
        /\ \A id \in DOMAIN index[t] : index[t][id] # <<>>

\* Both documents are stored, one with a content that yields no term, so
\* that every term of the index lists one document only.
C17_Witness ==
    /\ ~panicked
    /\ DOMAIN docs = DocIds
    /\ \E id \in DocIds : AnalyzedTerms(docs[id]) = {}
    /\ index # EmptyMap

----------------------------------------------------------------------------
(* Highlight                                                               *)

\* The positions are sorted and pairwise non-overlapping.
SortedNonOverlapping(v) ==
    \A j, k \in 1..Len(v) : j < k => v[j].offsets[2] <= v[k].offsets[1]

\* The content from its i-th char on, with `after` put where a position
\* ends and `before` where one begins.
RECURSIVE MarkedFrom(_, _, _, _, _)
MarkedFrom(content, v, before, after, i) ==
    LET at == ByteOffset(content, i)
        closing == IF \E k \in 1..Len(v) : v[k].offsets[2] = at THEN after ELSE <<>>
        opening == IF \E k \in 1..Len(v) : v[k].offsets[1] = at THEN before ELSE <<>>
    IN  IF i > Len(content) THEN closing \o opening
        ELSE closing \o opening \o <<content[i]>>
             \o MarkedFrom(content, v, before, after, i + 1)

\* A string without the chars of the markers.
RECURSIVE WithoutMarkers(_, _, _)
WithoutMarkers(s, before, after) ==
    IF s = <<>> THEN <<>>
    ELSE (IF \E k \in 1..Len(before) : before[k] = Head(s) THEN <<>>
          ELSE IF \E k \in 1..Len(after) : after[k] = Head(s) THEN <<>>
          ELSE <<Head(s)>>)
         \o WithoutMarkers(Tail(s), before, after)

\* C18: highlight(before, after) on a result with sorted, pairwise
\* non-overlapping positions gives the content with `before` right before
\* and `after` right after content[begin..end] of each position; without
\* the markers it is the content, and with no position it is the content.
C18_HighlightMarksPositions ==
    highlighted # None =>
        LET h == highlighted[1]
            content == docs[results[h.result].doc]
            v == results[h.result].positions
        IN  SortedNonOverlapping(v) =>
                /\ ~panicked
                /\ h.out = MarkedFrom(content, v, h.before, h.after, 1)
                /\ WithoutMarkers(h.out, h.before, h.after) = content
                /\ v = <<>> => h.out = content

\* A highlight of two positions in a content with a multi-byte char.
C18_Witness ==
    /\ highlighted # None
    /\ ~panicked
    /\ Len(results[highlighted[1].result].positions) = 2
    /\ ByteOffset(docs[results[highlighted[1].result].doc],
                  Len(docs[results[highlighted[1].result].doc]) + 1)
           > Len(docs[results[highlighted[1].result].doc])
    /\ highlighted[1].before # highlighted[1].after

----------------------------------------------------------------------------
(* Purity of query, and scores                                             *)

C20_ScoresAreNumbers ==
    lastQuery # NoQuery =>
        \A r \in 1..Len(results) :
            /\ ByteOffset(docs[results[r].doc], Len(docs[results[r].doc]) + 1) > 0
            /\ results[r].score[2] > 0
            /\ results[r].score[1] >= 0

\* A result with no positions (score 0) while a document of empty content
\* is stored.
C20_Witness ==
    /\ lastQuery # NoQuery
    /\ \E id \in DOMAIN docs : docs[id] = <<>>
    /\ \E r \in 1..Len(results) : results[r].score[1] = 0

----------------------------------------------------------------------------
(* The intersection iterator                                               *)

\* The keys held by every one of the sequences, ascending.
CommonKeys(seqs) ==
    SortedIds({k \in 1..MaxKey :
                  \A i \in 1..Len(seqs) : \E j \in 1..Len(seqs[i]) : seqs[i][j] = k})

\* C21: the items next() has returned are the first common keys of the
\* sequences, ascending and each once; when next() has returned None they
\* are all the common keys, and nothing is yielded after that.
C21_IntersectionYieldsCommonKeys ==
    isect # None =>
        LET common == CommonKeys(isect.given)
        IN  /\ Len(isect.yielded) <= Len(common)
            /\ isect.yielded = SubSeq(common, 1, Len(isect.yielded))
            /\ isect.ended => isect.yielded = common

\* Three sequences, the least key of the first not a common key, two
\* common keys yielded, and the end reached.
C21_Witness ==
    /\ isect # None
    /\ Len(isect.given) = 3
    /\ isect.ended
    /\ Len(isect.yielded) = 2
    /\ isect.given[1][1] < isect.yielded[1]
    /\ isect.given[1] # isect.given[2]
    /\ isect.given[2] # isect.given[3]

----------------------------------------------------------------------------
(* The tokenizer                                                           *)

\* The items of an iterator up to its first None.
RECURSIVE CollectItems(_)
CollectItems(iter) ==
    LET r == IterNext(iter)
    IN  IF r.item = None THEN <<>> ELSE <<r.item[1]>> \o CollectItems(r.iter)

\* The items of the iterator over a reader.
ItemsOver(rdr) == CollectItems([tokenizer |-> NewEnglishUtf8(rdr), err |-> FALSE])

\* The source of the reader has failed on a read.
SourceHasFailed == tokIter.given.fail_in # None /\ tokIter.iter.tokenizer.rdr.fail_in = None

\* C22: a failed read of the source is yielded as an error item, there is at
\* most one error item and no item follows it, and the items before it are
\* the first tokens of the same reader over a source that never fails.
C22_ReadFailureEndsIteration ==
    tokIter # None =>
        LET items == tokIter.items
            errs == {i \in 1..Len(items) : items[i] = <<"Err">>}
            clean == ItemsOver([tokIter.given EXCEPT !.fail_in = None])
            oks == IF errs = {} THEN items ELSE SubSeq(items, 1, Len(items) - 1)
        IN  /\ SourceHasFailed <=> errs # {}
            /\ errs \subseteq {Len(items)}
            /\ Len(oks) <= Len(clean)
            /\ oks = SubSeq(clean, 1, Len(oks))

\* The error item came after a token, a later next() has returned None, and
\* bytes holding a further token are left in the stream.
C22_Witness ==
    /\ tokIter # None
    /\ tokIter.ended
    /\ Len(tokIter.items) >= 2
    /\ tokIter.items[Len(tokIter.items)] = <<"Err">>
    /\ Len(ItemsOver([tokIter.given EXCEPT !.fail_in = None])) >= Len(tokIter.items)

\* C27: over a source that never fails, the tokens of a stream of
\* well-formed UTF-8 are those the tokenizer yields over a Cursor on the
\* same bytes, whatever the capacity of the reader.
C27_ChunkingIndependent ==
    (tokIter # None /\ tokIter.given.fail_in = None /\ tokIter.ended) =>
        tokIter.items = ItemsOver([tokIter.given EXCEPT
                                      !.cap = Len(tokIter.given.bytes) + 1])

----------------------------------------------------------------------------
(* merge_coalesce and search_coalesce                                      *)

\* The least element of a non-empty set of positions.
LeastPosition(S) == CHOOSE x \in S : \A y \in S : x = y \/ PosLess(x, y)

\* The elements of a set of positions, ascending.
RECURSIVE SortPositions(_)
SortPositions(S) ==
    IF S = {} THEN <<>>
    ELSE <<LeastPosition(S)>> \o SortPositions(S \ {LeastPosition(S)})

\* A sorted list with every run of neighbours that merge joined into one.
RECURSIVE CoalesceSorted(_, _)
CoalesceSorted(sorted, acc) ==
    IF sorted = <<>> THEN acc
    ELSE IF acc # <<>> /\ Merge(acc[Len(acc)], Head(sorted)) # None
    THEN CoalesceSorted(Tail(sorted),
                        [acc EXCEPT ![Len(acc)] = Merge(acc[Len(acc)], Head(sorted))[1]])
    ELSE CoalesceSorted(Tail(sorted), Append(acc, Head(sorted)))

SortAndCoalesce(v) == CoalesceSorted(SortPositions(Elements(v)), <<>>)

\* C23: merge_coalesce(v, other) leaves v the sorted, coalesced list of the
\* concatenation of v and other: strictly sorted, no two neighbours
\* mergeable, covering the union of the inputs.
C23_MergeCoalesceIsSortAndCoalesce ==
    (call # None /\ call.f = "merge_coalesce" /\ ret # None) =>
        /\ ~ret[1].panicked
        /\ StrictlyCoalesced(ret[1].v)
        /\ Covered(Elements(ret[1].v)) = Covered(Elements(call.v \o call.other))
        /\ ret[1].v = SortAndCoalesce(call.v \o call.other)

\* x holds the whole of el.
Absorbs(x, el) ==
    /\ x.position = el.position
    /\ x.offsets[1] <= el.offsets[1]
    /\ el.offsets[2] <= x.offsets[2]

\* Every element of v before start is less than el.
StartFits(v, start, el) == \A k \in 1..start : PosLess(v[k], el)

\* C24, as claimed: the index returned is within the v left and the element
\* there is el or the element that absorbed el; v is unchanged when it held
\* el.
C24_IndexOfElement ==
    (call # None /\ call.f = "search_coalesce" /\ ret # None
        /\ StartFits(call.v, call.start, call.el)) =>
        /\ ret[1].idx < Len(ret[1].v)
        /\ Absorbs(ret[1].v[ret[1].idx + 1], call.el)
        /\ (call.el \in Elements(call.v) => ret[1].v = call.v)

\* C24, amended: the index returned is the place of el in the order of the
\* v given, at most the length of the v left; el is held by the element
\* there or, when it was merged into its left neighbour, by the one before;
\* v is unchanged when it held el, and then the element there is el.
C24_IndexOfInsertion ==
    (call # None /\ call.f = "search_coalesce" /\ ret # None
        /\ StartFits(call.v, call.start, call.el)) =>
        LET i == ret[1].idx
            v == ret[1].v
        IN  /\ ~ret[1].panicked
            /\ i = Cardinality({k \in 1..Len(call.v) : PosLess(call.v[k], call.el)})
            /\ i <= Len(v)
            /\ \/ i < Len(v) /\ Absorbs(v[i + 1], call.el)
               \/ i > 0 /\ Absorbs(v[i], call.el)
            /\ (call.el \in Elements(call.v) => v = call.v /\ v[i + 1] = call.el)

\* el is merged into its left neighbour, which then takes in the right one:
\* the index returned is the length of the v left.
C24_Witness ==
    /\ call # None
    /\ call.f = "search_coalesce"
    /\ ret # None
    /\ call.start > 0
    /\ StartFits(call.v, call.start, call.el)
    /\ Len(ret[1].v) < Len(call.v)
    /\ ret[1].idx = Len(ret[1].v)

----------------------------------------------------------------------------
(* Positional intersection                                                 *)

\* The entry of a list at a token position, if any.
EntryAt(v, position) ==
    IF \E k \in 1..Len(v) : v[k].position = position
    THEN Some(v[CHOOSE k \in 1..Len(v) : v[k].position = position])
    ELSE None

\* The pairs (l, r) with r one token after l, for the token positions
\* from p on: l (unless it is the entry just written) and then r.
RECURSIVE AdjacentPairs(_, _, _, _)
AdjacentPairs(this, other, p, out) ==
    IF p > MaxPosition THEN out
    ELSE LET l == EntryAt(this, p)
             r == EntryAt(other, p + 1)
         IN  IF l = None \/ r = None THEN AdjacentPairs(this, other, p + 1, out)
             ELSE AdjacentPairs(this, other, p + 1,
                      (IF out # <<>> /\ out[Len(out)] = l[1] THEN out
                       ELSE Append(out, l[1])) \o <<r[1]>>)

\* C25: the positional intersection of two lists, each with one entry for a
\* token position and ascending, is the left entries with a right entry one
\* token later and those right entries, pair after pair in ascending token
\* position, a left entry equal to the entry before it written once.
C25_PositionalIntersectionIsAdjacentPairs ==
    (call # None /\ call.f = "intersect_positionally" /\ ret # None) =>
        ret[1] = AdjacentPairs(call.this, call.other, 0, <<>>)

\* Two pairs, the left entry of the second being the right entry of the
\* first, and a third pair whose left entry is not.
C25_Witness ==
    /\ call # None
    /\ call.f = "intersect_positionally"
    /\ ret # None
    /\ Len(ret[1]) = 5
    /\ ret[1][2].position = 1
    /\ ret[1][3].position = 2
    /\ ret[1][4].position = 2

\* The Positions the n-grams of the words n, n + 1, ... of s span: for each
\* word, one for each prefix length k, from the word's first byte to the
\* byte after its k-th char.
RECURSIVE PrefixPositionsFrom(_, _)
PrefixPositionsFrom(s, n) ==
    IF n >= NumWords(s) THEN <<>>
    ELSE LET i == WordStartAt(s, n)
             L == WordEnd(s, i) - i + 1
         IN  [k \in 1..L |->
                 NewPosition(<<ByteOffset(s, i), ByteOffset(s, i + k)>>, n)]
             \o PrefixPositionsFrom(s, n + 1)

\* The index of the last pair of pairs with token position w.
LastPairOf(pairs, w) ==
    CHOOSE k \in 1..Len(pairs) :
        /\ pairs[k][2].position = w
        /\ \A j \in (k + 1)..Len(pairs) : pairs[j][2].position # w

\* C26: the ngrams analyzer yields, for the w-th word of L chars, L pairs in
\* order of prefix length k = 1..L, each with token position w, beginning
\* at the word's first byte and ending after its k-th char, words ascending;
\* an input without words yields nothing; and the last pair of each word is
\* the pair the whitespace analyzer yields for that word.
C26_NgramsArePrefixesOfWords ==
    (call # None /\ call.f = "analyze" /\ ret.ngrams # None) =>
        LET s == call.s
            pairs == ret.ngrams[1]
        IN  /\ [k \in 1..Len(pairs) |-> pairs[k][2]] = PrefixPositionsFrom(s, 0)
            /\ (\A k \in 1..Len(s) : IsWhitespaceChar(s[k])) => pairs = <<>>
            /\ ret.whitespace # None =>
                  /\ Len(ret.whitespace[1]) = NumWords(s)
                  /\ \A w \in 0..(NumWords(s) - 1) :
                        ret.whitespace[1][w + 1] = pairs[LastPairOf(pairs, w)]

\* Both analyzers have run on a string of two words with a two-byte char
\* and a three-byte space.
C26_Witness ==
    /\ call # None
    /\ call.f = "analyze"
    /\ call.s = <<233, 65, 12288, 304>>
    /\ ret.ngrams # None
    /\ ret.whitespace # None
    /\ Len(ret.ngrams[1]) = 3
    /\ Len(ret.whitespace[1]) = 2

\* A Unicode scalar value: a code point outside the surrogate range.
IsScalarValue(v) == v \in 0..1114111 /\ v \notin 55296..57343

\* C28: successor(c) is the least Unicode scalar value greater than c: c + 1
\* except for 0xD7FF, whose successor is 0xE000, and none for 0x10FFFF.
C28_SuccessorIsLeastGreaterScalar ==
    (call # None /\ call.f = "successor" /\ ret # None) =>
        LET c == call.c
            r == ret[1]
        IN  /\ r = None <=> c = 1114111
            /\ r # None =>
                  /\ IsScalarValue(r[1])
                  /\ r[1] > c
                  /\ \A u \in (c + 1)..(r[1] - 1) : ~IsScalarValue(u)
                  /\ r[1] = (IF c = 55295 THEN 57344 ELSE c + 1)

\* successor has been called on the last char before the surrogate range.
C28_Witness ==
    /\ call # None
    /\ call.f = "successor"
    /\ call.c = 55295
    /\ ret = Some(Some(57344))

\* C29: results of equal scores are returned in ascending document id order,
\* so the order of the list is determined by the scores and the document
\* ids alone: of two results, the one of the greater score comes first, and
\* of two results of one score, the one of the smaller document id.
C29_TiesByAscendingDocId ==
    lastQuery # NoQuery =>
        \A j \in 1..Len(results) : \A k \in (j + 1)..Len(results) :
            /\ ScoreAtLeast(results[j], results[k])
            /\ ScoreAtLeast(results[k], results[j]) =>
                  results[j].doc < results[k].doc

\* Two results of one score.
C29_Witness ==
    /\ lastQuery # NoQuery
    /\ Len(results) = 2
    /\ ScoreAtLeast(results[1], results[2])
    /\ ScoreAtLeast(results[2], results[1])
    /\ results[1].doc = 0
    /\ results[2].doc = 1

\* The Positions the index holds for document d, under any term.
IndexedPositions(idx, d) ==
    UNION {Elements(idx[term][d]) : term \in {x \in DOMAIN idx : d \in DOMAIN idx[x]}}

\* What query_rec returns for query and for each of its sub-queries.
RECURSIVE EvaluatedPostings(_, _)
EvaluatedPostings(idx, query) ==
    {QueryRec(idx, query)}
    \cup UNION {EvaluatedPostings(idx, query.qs[k]) : k \in 1..Len(query.qs)}

\* The Positions of document d in the postings maps ms.
PositionsAmong(ms, d) == UNION {Elements(m[d]) : m \in {x \in ms : d \in DOMAIN x}}

\* Any two of the Positions ps with one token position begin at one byte.
OneBeginPerToken(ps) ==
    \A x \in ps : \A y \in ps :
        x.position = y.position => x.offsets[1] = y.offsets[1]

\* C30: in every state of the index and for the query being evaluated, any
\* two Positions of one document with equal token position have equal begin
\* (those the index holds together with those query_rec returns for the
\* query and its sub-queries), and no merge made by index() or query() has
\* failed the assertion that the argument's begin is not less than self's.
C30_EqualTokenPositionEqualBegin ==
    LET evaluated == IF lastQuery # NoQuery
                     THEN EvaluatedPostings(index, lastQuery) ELSE {}
    IN  /\ \A d \in DocIds :
              OneBeginPerToken(IndexedPositions(index, d) \cup PositionsAmong(evaluated, d))
        /\ \A term \in DOMAIN index : ~PostingsPanicked(index[term])
        /\ \A m \in evaluated : ~PostingsPanicked(m)

\* A query has merged two Positions of one word: the document's only word
\* is indexed under a one-char term and under a two-char term, and the only
\* Position returned spans the whole word.
C30_Witness ==
    /\ lastQuery # NoQuery
    /\ lastQuery.kind \in {"Match", "Prefix", "Or"}
    /\ Len(results) = 1
    /\ results[1].positions = <<NewPosition(<<0, 5>>, 0)>>
    /\ NewPosition(<<0, 1>>, 0) \in IndexedPositions(index, results[1].doc)
    /\ NewPosition(<<0, 5>>, 0) \in IndexedPositions(index, results[1].doc)
    /\ ~panicked

====
